---- MODULE Spec2Model ----
(***************************************************************************)
(* SuperClip front end: the category / prompt association store and the    *)
(* views derived from it (category tree, prompt grouping, ancestor         *)
(* expansion), the redux category slice, and the create-prompt modal.      *)
(*                                                                         *)
(* Several specifications share the variables below; each one drives one   *)
(* part of the client and leaves the others idle:                          *)
(*   SpecTree   the category tree builder of CategoriesPage                *)
(*   SpecGroup  prompt grouping of CategoriesPage / PromptsPage            *)
(*   SpecWalk   the ancestor-expansion effect of CategoriesPage            *)
(*   SpecStore  the category slice's deleteCategory and the grouping       *)
(*   SpecModal  the create-prompt modal and the thunks it dispatches       *)
(***************************************************************************)
EXTENDS Integers, Sequences, FiniteSets, TLC

VARIABLES
    categories,         \* state.categories.categories : Category[]
    prompts,            \* state.prompts.prompts : Prompt[]
    hierarchy,          \* value of the categoryHierarchy memo
    grouped,            \* value of the promptsByCategory memo
    id,                 \* route parameter of /categories/:id
    expandedCategories, \* useState of CategoriesPage
    newExpandedState,   \* local of the expansion effect
    parentId,           \* loop variable of the expansion effect
    effectPc,           \* position of the expansion effect
    categoriesLoading,  \* state.categories.loading
    categoriesError,    \* state.categories.error
    requests,           \* thunk requests in flight, by requestId
    nextRequestId,      \* the requestId of the next thunk dispatched
    lastAction,         \* the action the category and prompt slices reduced last
    promptsLoading,     \* state.prompts.loading
    promptsError,       \* state.prompts.error
    modalOpen,          \* state.ui.modalOpen.createPrompt
    isCreatingCategory, \* useState of CreatePromptModal
    newCategory,        \* useState of CreatePromptModal: the draft
    categoryError,      \* useState of CreatePromptModal
    selectedParentCategory, \* useState of CreatePromptModal
    values,             \* formik.values
    errors,             \* formik.errors: the fields that carry an error
    submissions,        \* the onSubmit calls started, by number
    serverPrompts,      \* the prompts the API holds
    serverCategories,   \* the categories the API holds
    exchanges,          \* what the API answered and how the thunk settled, by requestId
    currentPrompt,      \* state.prompts.currentPrompt
    searchResults,      \* state.prompts.searchResults
    searchQuery,        \* state.prompts.searchQuery
    currentCategory,    \* CategoriesPage: the category being edited, or none
    formValues,         \* CategoriesPage: formik.values of the category form
    categoryModal,      \* state.ui.modalOpen: the category modals that are open
    electron,           \* isElectron(): the host environment
    electronToken,      \* the token the Electron store holds
    localToken,         \* localStorage['auth_token']
    isAuthenticating,   \* api.ts: the module-level flag
    loginInFlight,      \* the login thunk awaits its answer
    location,           \* window.location.pathname
    now,                \* Date.now() / 1000
    apiRequests,        \* the requests sent through the API client, in flight
    nextApiId,          \* the number of the next request of the API client
    lastResponse,       \* the response the API client received last
    renders,            \* CategoriesPage: the renders that evaluated the memos
    filteredView,       \* CategoriesPage: the filteredView memo
    rendered,           \* CategoriesPage: the CategoryItem elements of the tree
    auth,               \* state.auth: user, token, isAuthenticated
    authLog             \* the actions the auth slice reduced

viewVars == <<hierarchy, grouped>>
walkVars == <<id, expandedCategories, newExpandedState, parentId, effectPc>>
storeVars == <<categoriesLoading, categoriesError, requests, nextRequestId, lastAction>>
promptStoreVars == <<promptsLoading, promptsError>>
formVars == <<isCreatingCategory, newCategory, categoryError, selectedParentCategory, values>>
modalVars == <<modalOpen, formVars, errors, submissions>>
serverVars == <<serverPrompts>>
cacheVars == <<serverCategories, exchanges, currentPrompt, searchResults, searchQuery>>
pageFormVars == <<currentCategory, formValues, categoryModal>>
apiVars == <<electron, electronToken, localToken, isAuthenticating, loginInFlight, location,
             now, apiRequests, nextApiId, lastResponse>>
memoVars == <<renders, filteredView, rendered>>
authVars == <<auth, authLog>>

----------------------------------------------------------------------------
(* JavaScript values.  Strings are TLA+ strings; undefined / null (an      *)
(* absent optional field) is the value Undefined, which is no id.          *)

Undefined == "<undefined>"

\* if (v) for v : string | undefined | null
Truthy(v) == v # Undefined /\ v # "<null>" /\ v # ""

\* A property every object literal {} inherits from Object.prototype: a
\* lookup obj[k] of such a key finds a value (truthy, not an array) although
\* obj has no own property k.
ObjectPrototypeKeys == {"constructor"}

\* the empty object literal {} : no own property
EmptyObject == [k \in {} |-> <<>>]

\* obj[k] is truthy: an own property (arrays are truthy, also when empty) or
\* an inherited one
LookupTruthy(obj, k) == k \in DOMAIN obj \/ k \in ObjectPrototypeKeys

\* obj[k] = v : creates or overwrites the own property k
SetProperty(obj, k, v) == [x \in DOMAIN obj \cup {k} |-> IF x = k THEN v ELSE obj[x]]

----------------------------------------------------------------------------
(* Category tree builder: CategoriesPage.categoryHierarchy                 *)

\* mutant: the filter tests parentId === '' and misses an absent parentId
rootCategoriesOf_EmptyStringOnly(cats) ==
    SelectSeq(cats, LAMBDA category : category.parentId = "")

\* mutant: a category whose parent is not in the list is shown as a root
rootCategoriesOf_OrUnresolved(cats) ==
    SelectSeq(cats, LAMBDA category :
        ~Truthy(category.parentId)
            \/ \A j \in DOMAIN cats : cats[j].id # category.parentId)

\* categories.filter(category => !category.parentId)
rootCategoriesOf(cats) == SelectSeq(cats, LAMBDA category : ~Truthy(category.parentId))

RECURSIVE childrenMapFrom_DropsFirst(_, _, _)
\* mutant: the push sits in an else branch, so the child that creates a
\* parent's list is not put into it
childrenMapFrom_DropsFirst(cats, i, map) ==
    IF i > Len(cats) THEN [threw |-> FALSE, childrenMap |-> map]
    ELSE LET category == cats[i] IN
         IF ~Truthy(category.parentId)
         THEN childrenMapFrom_DropsFirst(cats, i + 1, map)
         ELSE IF ~LookupTruthy(map, category.parentId)
              THEN childrenMapFrom_DropsFirst(cats, i + 1,
                       SetProperty(map, category.parentId, <<>>))
         ELSE IF category.parentId \in DOMAIN map
              THEN childrenMapFrom_DropsFirst(cats, i + 1,
                       [map EXCEPT ![category.parentId] = Append(@, category)])
         ELSE [threw |-> TRUE, childrenMap |-> map]

RECURSIVE childrenMapFrom(_, _, _)
\* categories.forEach(...) from element i on, childrenMap being map so far.
\* childrenMap[parentId].push throws a TypeError when the lookup found an
\* inherited property instead of an array.
childrenMapFrom(cats, i, map) ==
    IF i > Len(cats) THEN [threw |-> FALSE, childrenMap |-> map]
    ELSE LET category == cats[i] IN
         IF ~Truthy(category.parentId) THEN childrenMapFrom(cats, i + 1, map)
         ELSE IF ~LookupTruthy(map, category.parentId)
              THEN childrenMapFrom(cats, i + 1,
                       SetProperty(map, category.parentId, <<category>>))
         ELSE IF category.parentId \in DOMAIN map
              THEN childrenMapFrom(cats, i + 1,
                       [map EXCEPT ![category.parentId] = Append(@, category)])
         ELSE [threw |-> TRUE, childrenMap |-> map]

\* the memo's value: { rootCategories, childrenMap }, or the exception
categoryHierarchy(cats) ==
    LET r == childrenMapFrom(cats, 1, EmptyObject) IN
    IF r.threw
    THEN [status |-> "TypeError", rootCategories |-> <<>>, childrenMap |-> EmptyObject]
    ELSE [status |-> "ok", rootCategories |-> rootCategoriesOf(cats),
          childrenMap |-> r.childrenMap]

----------------------------------------------------------------------------
(* Prompt grouping: CategoriesPage.promptsByCategory (PromptsPage has the  *)
(* same code)                                                              *)

UNCATEGORIZED == "uncategorized"

RECURSIVE initGrouped(_, _, _)
\* categories.forEach(category => { grouped[category.id] = []; })
initGrouped(cats, i, g) ==
    IF i > Len(cats) THEN g
    ELSE initGrouped(cats, i + 1, SetProperty(g, cats[i].id, <<>>))

RECURSIVE populateGrouped(_, _, _)
\* prompts.forEach(...) from element i on
populateGrouped(ps, i, g) ==
    IF i > Len(ps) THEN [threw |-> FALSE, grouped |-> g]
    ELSE LET prompt == ps[i] IN
         IF Truthy(prompt.categoryId) /\ LookupTruthy(g, prompt.categoryId)
         THEN IF prompt.categoryId \in DOMAIN g
              THEN populateGrouped(ps, i + 1,
                       [g EXCEPT ![prompt.categoryId] = Append(@, prompt)])
              ELSE [threw |-> TRUE, grouped |-> g]
         ELSE populateGrouped(ps, i + 1,
                  [g EXCEPT ![UNCATEGORIZED] = Append(@, prompt)])

\* the memo's value: grouped, or the exception
promptsByCategory(ps, cats) ==
    LET g0 == SetProperty(initGrouped(cats, 1, EmptyObject), UNCATEGORIZED, <<>>)
        r  == populateGrouped(ps, 1, g0)
    IN IF r.threw THEN [status |-> "TypeError", grouped |-> EmptyObject]
       ELSE [status |-> "ok", grouped |-> r.grouped]

NoMemo == [status |-> "none"]

----------------------------------------------------------------------------
(* Inputs.  The server assigns ids; the client accepts any string.         *)

MaxTreeCats == 3
MaxGroupCats == 2
MaxPrompts == 2

SeqsUpTo(S, n) == UNION {[1..k -> S] : k \in 0..n}

\* ids of the tree and walk specifications
TreeIds == {"c1", "c2", "constructor"}
\* ids of the grouping and store specifications
GroupIds == {"c1", "c2", "uncategorized", "constructor"}

TreeCategory == [id : TreeIds, parentId : TreeIds \cup {"", Undefined}]
GroupCategory == [id : GroupIds, parentId : {Undefined, "c1"}]

\* ids of the prompts of a cached list, by position: the server's ids are unique
PromptIdAt == <<"p1", "p2", "p3", "p4", "p5", "p6">>

PromptLists ==
    {[i \in DOMAIN cids |-> [id |-> PromptIdAt[i], categoryId |-> cids[i]]] :
        cids \in SeqsUpTo(GroupIds \cup {"", Undefined}, MaxPrompts)}

\* null (state.error) and the store before any action
Null == "<null>"

StoreIdle ==
    /\ categoriesLoading = FALSE
    /\ categoriesError = Null
    /\ requests = EmptyObject
    /\ nextRequestId = 1
    /\ lastAction = [type |-> "@@INIT", requestId |-> 0]

\* text typed into a field: a sequence of characters
Blank == <<>>

\* '#6366F1', the default colour of a new category
DefaultColor == "#6366F1"

\* useState({ name: '', description: '', color: '#6366F1', parentId: '' })
InitialNewCategory ==
    [name |-> Blank, description |-> Blank, color |-> DefaultColor, parentId |-> ""]

\* formik initialValues
InitialValues ==
    [title |-> Blank, content |-> Blank, description |-> Blank, categoryId |-> "",
     tags |-> <<>>]

\* the create-prompt modal closed and untouched, the prompt slice idle, the
\* API without a prompt
ModalIdle ==
    /\ promptsLoading = FALSE
    /\ promptsError = Null
    /\ modalOpen = FALSE
    /\ isCreatingCategory = FALSE
    /\ newCategory = InitialNewCategory
    /\ categoryError = ""
    /\ selectedParentCategory = ""
    /\ values = InitialValues
    /\ errors = {}
    /\ submissions = EmptyObject
    /\ serverPrompts = <<>>

\* currentPrompt: null
NoPrompt == [id |-> Null, categoryId |-> Null]

\* the rest of the prompt slice as initialState has it, the API without a
\* category, no request answered
CacheIdle ==
    /\ serverCategories = <<>>
    /\ exchanges = EmptyObject
    /\ currentPrompt = NoPrompt
    /\ searchResults = <<>>
    /\ searchQuery = ""

\* the category of the form when none is being edited
NoCategory == [id |-> Null, parentId |-> Null]

\* formik.initialValues of the category form for the category being edited
formInitialValues(category) ==
    IF category = NoCategory
    THEN [name |-> "", parentId |-> ""]
    ELSE [name |-> "n", parentId |-> IF Truthy(category.parentId) THEN category.parentId ELSE ""]

\* the category form is closed and nothing is being edited
FormIdle ==
    /\ currentCategory = NoCategory
    /\ formValues = formInitialValues(NoCategory)
    /\ categoryModal = {}

\* no token: null
NoToken == [payload |-> Null, exp |-> 0]

\* no response received yet
NoResponse == [id |-> 0, url |-> "", status |-> 0]

\* the API client has sent nothing, nobody is logged in
ApiIdle ==
    /\ electron = FALSE
    /\ electronToken = NoToken
    /\ localToken = NoToken
    /\ isAuthenticating = FALSE
    /\ loginInFlight = FALSE
    /\ location = "/"
    /\ now = 0
    /\ apiRequests = EmptyObject
    /\ nextApiId = 1
    /\ lastResponse = NoResponse

\* the page has not rendered
MemoIdle ==
    /\ renders = 0
    /\ filteredView = NoMemo
    /\ rendered = NoMemo

\* initialState of the auth slice
AuthIdle ==
    /\ auth = [user |-> Null, token |-> NoToken, isAuthenticated |-> FALSE]
    /\ authLog = <<>>

idleModalVars == <<promptStoreVars, modalVars, serverVars, cacheVars, pageFormVars, apiVars, memoVars, authVars>>

WalkIdle ==
    /\ id = Undefined
    /\ expandedCategories = EmptyObject
    /\ newExpandedState = EmptyObject
    /\ parentId = Undefined
    /\ effectPc = "idle"

----------------------------------------------------------------------------
(* SpecTree: a render of CategoriesPage computes the tree of the cached    *)
(* categories.                                                             *)

InitTree ==
    /\ categories \in SeqsUpTo(TreeCategory, MaxTreeCats)
    /\ prompts = <<>>
    /\ hierarchy = NoMemo
    /\ grouped = NoMemo
    /\ WalkIdle
    /\ StoreIdle
    /\ ModalIdle
    /\ CacheIdle
    /\ FormIdle
    /\ ApiIdle
    /\ MemoIdle
    /\ AuthIdle

RenderTree ==
    /\ hierarchy.status = "none"
    /\ hierarchy' = categoryHierarchy(categories)
    /\ UNCHANGED <<categories, prompts, grouped, walkVars, storeVars, idleModalVars>>

NextTree == RenderTree

vars == <<categories, prompts, viewVars, walkVars, storeVars, promptStoreVars,
          modalVars, serverVars, cacheVars, pageFormVars, apiVars, memoVars, authVars>>

SpecTree == InitTree /\ [][NextTree]_vars

(* SpecGroup: a render computes the grouping of the cached prompts.        *)

InitGroup ==
    /\ categories \in SeqsUpTo(GroupCategory, MaxGroupCats)
    /\ prompts \in PromptLists
    /\ hierarchy = NoMemo
    /\ grouped = NoMemo
    /\ WalkIdle
    /\ StoreIdle
    /\ ModalIdle
    /\ CacheIdle
    /\ FormIdle
    /\ ApiIdle
    /\ MemoIdle
    /\ AuthIdle

RenderGroup ==
    /\ grouped.status = "none"
    /\ grouped' = promptsByCategory(prompts, categories)
    /\ UNCHANGED <<categories, prompts, hierarchy, walkVars, storeVars, idleModalVars>>

NextGroup == RenderGroup

SpecGroup == InitGroup /\ [][NextGroup]_vars

----------------------------------------------------------------------------
(* Vocabulary of the properties                                            *)

RECURSIVE SortedIndices(_)
\* the elements of a finite set of integers, ascending
SortedIndices(S) ==
    IF S = {} THEN <<>>
    ELSE LET m == CHOOSE x \in S : \A y \in S : x <= y
         IN <<m>> \o SortedIndices(S \ {m})

\* the subsequence of seq at the positions S, in the order of seq
SubSeqAt(seq, S) ==
    LET idx == SortedIndices(S) IN [k \in 1..Len(idx) |-> seq[idx[k]]]

\* the positions of seq that hold x
PositionsOf(seq, x) == {k \in DOMAIN seq : seq[k] = x}

IdsOf(cats) == {cats[i].id : i \in DOMAIN cats}

DistinctIds(cats) == \A i, j \in DOMAIN cats : cats[i].id = cats[j].id => i = j

IsRoot(category) == category.parentId \in {"", Undefined}

Occurs(seq, x) == PositionsOf(seq, x) # {}

\* category i names a parent that is no category of the list
Dangling(cats, i) ==
    Truthy(cats[i].parentId) /\ cats[i].parentId \notin IdsOf(cats)

\* seq holds elements of base, each at most once, in the order of base
KeepsOrderOf(seq, base) ==
    seq = SubSeqAt(base, {i \in DOMAIN base : Occurs(seq, base[i])})

----------------------------------------------------------------------------
(* Category tree builder                                                   *)

----------------------------------------------------------------------------
(* Prompt grouping                                                         *)

\* the bucket the claim assigns to a prompt
BucketOf(prompt, cats) ==
    IF Truthy(prompt.categoryId) /\ prompt.categoryId \in IdsOf(cats)
    THEN prompt.categoryId
    ELSE UNCATEGORIZED

\* C4 as claimed: grouping puts every prompt into exactly one bucket, that of
\* its categoryId when a category has that id and the uncategorized bucket
\* otherwise; no prompt is dropped or duplicated, and the uncategorized
\* bucket holds no prompt whose categoryId matches a category.
C4_GroupingPartitions ==
    grouped.status # "none" =>
        /\ grouped.status = "ok"
        /\ \A i \in DOMAIN prompts :
              /\ BucketOf(prompts[i], categories) \in DOMAIN grouped.grouped
              /\ \A k \in DOMAIN grouped.grouped :
                    Cardinality(PositionsOf(grouped.grouped[k], prompts[i]))
                        = IF k = BucketOf(prompts[i], categories) THEN 1 ELSE 0
        /\ \A n \in DOMAIN grouped.grouped[UNCATEGORIZED] :
              LET p == grouped.grouped[UNCATEGORIZED][n] IN
              ~(Truthy(p.categoryId) /\ p.categoryId \in IdsOf(categories))

\* C5 as claimed: the grouping has one bucket per category, empty when no
\* prompt points to the category, plus the uncategorized bucket and no other,
\* and every bucket keeps the input order of its prompts.
C5_BucketsAndOrder ==
    grouped.status = "ok" =>
        /\ DOMAIN grouped.grouped = IdsOf(categories) \cup {UNCATEGORIZED}
        /\ \A k \in IdsOf(categories) :
              (\A i \in DOMAIN prompts : prompts[i].categoryId # k)
                  => grouped.grouped[k] = <<>>
        /\ \A k \in DOMAIN grouped.grouped :
              KeepsOrderOf(grouped.grouped[k], prompts)

----------------------------------------------------------------------------
(* SpecWalk: the effect of CategoriesPage that expands the category of the *)
(* route and its ancestors.  The effect runs to completion once started    *)
(* (one JavaScript task), so its steps are weakly fair.                    *)

MaxWalkCats == 3

WalkIds == {"c1", "c2", "c3"}

WalkCategory == [id : WalkIds, parentId : WalkIds \cup {Undefined}]

\* expansion states left by earlier toggles (toggleCategoryExpand)
EarlierExpanded ==
    { EmptyObject,
      [k \in {"c1", "c2"} |-> k = "c1"],
      [k \in {"c3"} |-> TRUE] }

\* categories.find(cat => cat.id === x)?.parentId
findParentId(cats, x) ==
    IF \E i \in DOMAIN cats : cats[i].id = x
    THEN LET first == CHOOSE i \in DOMAIN cats :
                 /\ cats[i].id = x
                 /\ \A j \in DOMAIN cats : cats[j].id = x => i <= j
         IN cats[first].parentId
    ELSE Undefined

InitWalk ==
    /\ categories \in SeqsUpTo(WalkCategory, MaxWalkCats)
    /\ prompts = <<>>
    /\ hierarchy = NoMemo
    /\ grouped = NoMemo
    /\ id \in WalkIds \cup {Undefined}
    /\ expandedCategories \in EarlierExpanded
    /\ newExpandedState = EmptyObject
    /\ parentId = Undefined
    /\ effectPc = "idle"
    /\ StoreIdle
    /\ ModalIdle
    /\ CacheIdle
    /\ FormIdle
    /\ ApiIdle
    /\ MemoIdle
    /\ AuthIdle

\* the effect starts: the guard, newExpandedState[id] = true, the first find
EffectStart ==
    /\ effectPc = "idle"
    /\ IF Truthy(id) /\ Len(categories) > 0
       THEN /\ newExpandedState' = SetProperty(EmptyObject, id, TRUE)
            /\ parentId' = findParentId(categories, id)
            /\ effectPc' = "test"
       ELSE /\ effectPc' = "done"
            /\ UNCHANGED <<newExpandedState, parentId>>
    /\ UNCHANGED <<categories, prompts, viewVars, storeVars, idleModalVars, id, expandedCategories>>

\* while (parentId) holds: newExpandedState[parentId] = true
EffectMark ==
    /\ effectPc = "test"
    /\ Truthy(parentId)
    /\ newExpandedState' = SetProperty(newExpandedState, parentId, TRUE)
    /\ effectPc' = "find"
    /\ UNCHANGED <<categories, prompts, viewVars, storeVars, idleModalVars, id, expandedCategories, parentId>>

\* parentId = categories.find(cat => cat.id === parentId)?.parentId
EffectFind ==
    /\ effectPc = "find"
    /\ parentId' = findParentId(categories, parentId)
    /\ effectPc' = "test"
    /\ UNCHANGED <<categories, prompts, viewVars, storeVars, idleModalVars, id, expandedCategories,
                   newExpandedState>>

\* mutant: the new state replaces the old one instead of being merged into it
EffectCommit_Replaces ==
    /\ effectPc = "test"
    /\ ~Truthy(parentId)
    /\ expandedCategories' = newExpandedState
    /\ effectPc' = "done"
    /\ UNCHANGED <<categories, prompts, viewVars, storeVars, idleModalVars, id, newExpandedState, parentId>>

\* the loop ends: setExpandedCategories(prev => ({...prev, ...newExpandedState}))
EffectCommit ==
    /\ effectPc = "test"
    /\ ~Truthy(parentId)
    /\ expandedCategories' =
           [k \in DOMAIN expandedCategories \cup DOMAIN newExpandedState |->
               IF k \in DOMAIN newExpandedState THEN newExpandedState[k]
               ELSE expandedCategories[k]]
    /\ effectPc' = "done"
    /\ UNCHANGED <<categories, prompts, viewVars, storeVars, idleModalVars, id, newExpandedState, parentId>>

NextWalk == EffectStart \/ EffectMark \/ EffectFind \/ EffectCommit

SpecWalk == InitWalk /\ [][NextWalk]_vars /\ WF_vars(NextWalk)

\* the parent of id x: the parentId of the first category with that id
ParentEdges(cats) ==
    {<<x, findParentId(cats, x)>> : x \in {y \in IdsOf(cats) : Truthy(findParentId(cats, y))}}

RECURSIVE AncestorsFrom(_, _, _)
\* the ids reachable from the set S along parent edges, in at most n steps
AncestorsFrom(cats, S, n) ==
    LET up == {e[2] : e \in {f \in ParentEdges(cats) : f[1] \in S}} IN
    IF n = 0 \/ up \subseteq S THEN S \cup up
    ELSE AncestorsFrom(cats, S \cup up, n - 1)

\* the proper ancestors of x
Ancestors(cats, x) ==
    LET up == {e[2] : e \in {f \in ParentEdges(cats) : f[1] = x}} IN
    IF up = {} THEN {} ELSE AncestorsFrom(cats, up, Len(cats))

Acyclic(cats) == \A x \in IdsOf(cats) : x \notin Ancestors(cats, x)

IsExpanded(expanded, k) == k \in DOMAIN expanded /\ expanded[k]

\* C6 as claimed: the expansion of the ancestors of the route's category
\* terminates for every category list, cyclic parent chains included.
C6_ExpansionTerminates == <>(effectPc = "done")

\* C7: when the expansion ends, the target and every existing category on
\* its parent chain are expanded, and what was expanded before still is.
C7_AncestorsExpanded ==
    [][(effectPc = "test" /\ effectPc' = "done") =>
          /\ IsExpanded(expandedCategories', id)
          /\ \A a \in Ancestors(categories, id) \cap IdsOf(categories) :
                IsExpanded(expandedCategories', a)
          /\ \A k \in DOMAIN expandedCategories :
                expandedCategories[k] => IsExpanded(expandedCategories', k)]_vars

C7_Witness ==
    /\ effectPc = "done"
    /\ Acyclic(categories)
    /\ DistinctIds(categories)
    /\ id = "c1"
    /\ Ancestors(categories, id) = {"c2", "c3"}
    /\ \A k \in WalkIds : IsExpanded(expandedCategories, k)

----------------------------------------------------------------------------
(* SpecStore: the category slice under deleteCategory, with the grouping   *)
(* CategoriesPage derives from the cached lists.  The lists start as any   *)
(* earlier fetch may have left them.                                       *)

MaxStoreCats == 2
MaxStorePrompts == 2
MaxRequests == 1

StoreIds == {"c1", "c2", "constructor"}

StoreCategory == [id : StoreIds, parentId : {Undefined}]

StorePromptLists ==
    {[i \in DOMAIN cids |-> [id |-> PromptIdAt[i], categoryId |-> cids[i]]] :
        cids \in SeqsUpTo(StoreIds \cup {Undefined}, MaxStorePrompts)}

\* getErrorMessage(error) for a failed request without a response body
RequestFailedMessage == "An error occurred during the request"

InitStore ==
    /\ categories \in SeqsUpTo(StoreCategory, MaxStoreCats)
    /\ prompts \in StorePromptLists
    /\ hierarchy = NoMemo
    /\ grouped = NoMemo
    /\ WalkIdle
    /\ StoreIdle
    /\ ModalIdle
    /\ CacheIdle
    /\ FormIdle
    /\ ApiIdle
    /\ MemoIdle
    /\ AuthIdle

\* dispatch(deleteCategory(c)): deleteCategory.pending is reduced and
\* DELETE /categories/c is sent
DeleteCategoryDispatch(c) ==
    /\ nextRequestId <= MaxRequests
    /\ requests' = SetProperty(requests, nextRequestId,
                       [type |-> "categories/deleteCategory", arg |-> [id |-> c]])
    /\ nextRequestId' = nextRequestId + 1
    /\ categoriesLoading' = TRUE
    /\ categoriesError' = Null
    /\ lastAction' = [type |-> "categories/deleteCategory/pending",
                      requestId |-> nextRequestId]
    /\ UNCHANGED <<categories, prompts, viewVars, walkVars, idleModalVars>>

WithoutRequest(r) == [x \in DOMAIN requests \ {r} |-> requests[x]]

\* mutant: the reducer also drops the prompts of the deleted category
DeleteCategoryFulfilled_Cascades(r) ==
    /\ r \in DOMAIN requests
    /\ requests[r].type = "categories/deleteCategory"
    /\ LET payload == requests[r].arg.id IN
       /\ categories' = SelectSeq(categories, LAMBDA cat : cat.id # payload)
       /\ prompts' = SelectSeq(prompts, LAMBDA p : p.categoryId # payload)
       /\ lastAction' = [type |-> "categories/deleteCategory/fulfilled",
                         requestId |-> r, payload |-> payload]
    /\ categoriesLoading' = FALSE
    /\ categoriesError' = Null
    /\ requests' = WithoutRequest(r)
    /\ hierarchy' = NoMemo
    /\ grouped' = NoMemo
    /\ UNCHANGED <<walkVars, nextRequestId, idleModalVars>>

\* the DELETE succeeded: the thunk returns id and deleteCategory.fulfilled is
\* reduced; the memos that depend on categories are stale
DeleteCategoryFulfilled(r) ==
    /\ r \in DOMAIN requests
    /\ requests[r].type = "categories/deleteCategory"
    /\ LET payload == requests[r].arg.id IN
       /\ categories' = SelectSeq(categories, LAMBDA cat : cat.id # payload)
       /\ lastAction' = [type |-> "categories/deleteCategory/fulfilled",
                         requestId |-> r, payload |-> payload]
    /\ categoriesLoading' = FALSE
    /\ categoriesError' = Null
    /\ requests' = WithoutRequest(r)
    /\ hierarchy' = NoMemo
    /\ grouped' = NoMemo
    /\ UNCHANGED <<prompts, walkVars, nextRequestId, idleModalVars>>

\* the DELETE failed: rejectWithValue(message), deleteCategory.rejected
DeleteCategoryRejected(r) ==
    /\ r \in DOMAIN requests
    /\ requests[r].type = "categories/deleteCategory"
    /\ categoriesLoading' = FALSE
    /\ categoriesError' = RequestFailedMessage
    /\ lastAction' = [type |-> "categories/deleteCategory/rejected",
                      requestId |-> r, payload |-> RequestFailedMessage]
    /\ requests' = WithoutRequest(r)
    /\ UNCHANGED <<categories, prompts, viewVars, walkVars, nextRequestId, idleModalVars>>

\* a render recomputes the stale promptsByCategory memo
RenderStore ==
    /\ grouped.status = "none"
    /\ grouped' = promptsByCategory(prompts, categories)
    /\ UNCHANGED <<categories, prompts, hierarchy, walkVars, storeVars, idleModalVars>>

NextStore ==
    \/ \E c \in StoreIds : DeleteCategoryDispatch(c)
    \/ \E r \in 1..MaxRequests : DeleteCategoryFulfilled(r)
    \/ \E r \in 1..MaxRequests : DeleteCategoryRejected(r)
    \/ RenderStore

SpecStore == InitStore /\ [][NextStore]_vars

----------------------------------------------------------------------------
(* The create-prompt modal (two-level category selection) and the thunks   *)
(* it dispatches: createCategory, createPrompt and the fetchPrompts that   *)
(* createPrompt starts.  One onSubmit call runs up to its first await in   *)
(* the step of the click; each later part runs in the step of the response *)
(* it awaits.  The modal has no submit button, so the form is submitted by *)
(* the Create Prompt button (handleManualSubmit) only.                     *)

MaxSubmits == 1

NEW_CATEGORY_OPTION == "new-category"

CategoryNameRequired == "Category name is required"

\* the texts typed into title, content and the new category's name
Titles == {Blank, <<" ">>, <<" ", "t">>}
Contents == {Blank, <<"x">>}
Names == {Blank, <<" ">>, <<"n", " ">>}

\* String.prototype.trim
RECURSIVE trimStart(_)
trimStart(s) == IF s # <<>> /\ Head(s) = " " THEN trimStart(Tail(s)) ELSE s

RECURSIVE trimEnd(_)
trimEnd(s) == IF s # <<>> /\ s[Len(s)] = " " THEN trimEnd(SubSeq(s, 1, Len(s) - 1)) ELSE s

trim(s) == trimEnd(trimStart(s))

\* the ids the API gives to what a request creates, by requestId
NewCategoryIdAt == <<"n1", "n2", "n3", "n4", "n5", "n6", "n7", "n8", "n9", "n10", "n11", "n12">>
NewPromptIdAt == <<"q1", "q2", "q3", "q4", "q5", "q6", "q7", "q8", "q9", "q10", "q11", "q12">>

ModalCategoryLists ==
    {<<[id |-> "c1", parentId |-> Undefined], [id |-> "c2", parentId |-> "c1"]>>}

InitModal ==
    /\ categories \in ModalCategoryLists
    /\ prompts = <<>>
    /\ hierarchy = NoMemo
    /\ grouped = NoMemo
    /\ WalkIdle
    /\ StoreIdle
    /\ ModalIdle
    /\ CacheIdle
    /\ FormIdle
    /\ ApiIdle
    /\ MemoIdle
    /\ AuthIdle

\* categories.filter(category => !category.parentId)
topLevelCategories == SelectSeq(categories, LAMBDA category : ~Truthy(category.parentId))

\* the effect on [selectedParentCategory, categories]
availableSubcategories ==
    IF Truthy(selectedParentCategory)
    THEN SelectSeq(categories, LAMBDA cat : cat.parentId = selectedParentCategory)
    ELSE <<>>

\* the fields the Yup schema of getValidationSchema(creating) rejects:
\* required() fails on the empty string only
schemaErrors(v, creating) ==
    {f \in {"title", "content", "categoryId"} :
        \/ f = "title" /\ v.title = Blank
        \/ f = "content" /\ v.content = Blank
        \/ f = "categoryId" /\ ~creating /\ v.categoryId = ""}

\* dispatch(openModal('createPrompt'))
OpenModal ==
    /\ ~modalOpen
    /\ modalOpen' = TRUE
    /\ UNCHANGED <<categories, prompts, viewVars, walkVars, cacheVars, pageFormVars, apiVars, memoVars, authVars, storeVars, promptStoreVars,
                   formVars, errors, submissions, serverVars>>

\* handleClose: closeModal, formik.resetForm and the useState resets
HandleClose ==
    /\ modalOpen
    /\ modalOpen' = FALSE
    /\ values' = InitialValues
    /\ errors' = {}
    /\ isCreatingCategory' = FALSE
    /\ newCategory' = InitialNewCategory
    /\ categoryError' = ""
    /\ selectedParentCategory' = ""
    /\ UNCHANGED <<categories, prompts, viewVars, walkVars, cacheVars, pageFormVars, apiVars, memoVars, authVars, storeVars, promptStoreVars,
                   submissions, serverVars>>

\* what a handler of the form leaves alone
formFrame ==
    <<categories, prompts, viewVars, walkVars, cacheVars, pageFormVars, apiVars, memoVars, authVars, storeVars, promptStoreVars,
      modalOpen, submissions, serverVars>>

\* formik.handleChange of the title input, with validateOnChange
ChangeTitle(t) ==
    /\ modalOpen
    /\ t # values.title
    /\ values' = [values EXCEPT !.title = t]
    /\ errors' = schemaErrors(values', isCreatingCategory)
    /\ UNCHANGED <<isCreatingCategory, newCategory, categoryError,
                   selectedParentCategory, formFrame>>

\* formik.handleChange of the content input, with validateOnChange
ChangeContent(c) ==
    /\ modalOpen
    /\ c # values.content
    /\ values' = [values EXCEPT !.content = c]
    /\ errors' = schemaErrors(values', isCreatingCategory)
    /\ UNCHANGED <<isCreatingCategory, newCategory, categoryError,
                   selectedParentCategory, formFrame>>

\* mutant: switching to "Create new category" keeps the subcategory chosen
HandleParentCategoryChange_KeepsSubcategory(value) ==
    /\ modalOpen
    /\ ~isCreatingCategory
    /\ value \in {""} \cup IdsOf(topLevelCategories) \cup {NEW_CATEGORY_OPTION}
    /\ value # selectedParentCategory
    /\ IF value = NEW_CATEGORY_OPTION
         THEN /\ isCreatingCategory' = TRUE
              /\ selectedParentCategory' = ""
              /\ values' = values
         ELSE /\ isCreatingCategory' = FALSE
              /\ selectedParentCategory' = value
              /\ values' = [values EXCEPT !.categoryId = ""]
    /\ errors' = schemaErrors(values', isCreatingCategory)
    /\ UNCHANGED <<newCategory, categoryError, formFrame>>

\* handleParentCategoryChange; setFieldValue validates with the schema of
\* the render the select was shown by
HandleParentCategoryChange(value) ==
    /\ modalOpen
    /\ ~isCreatingCategory
    /\ value \in {""} \cup IdsOf(topLevelCategories) \cup {NEW_CATEGORY_OPTION}
    /\ value # selectedParentCategory
    /\ IF value = NEW_CATEGORY_OPTION
         THEN /\ isCreatingCategory' = TRUE
              /\ selectedParentCategory' = ""
         ELSE /\ isCreatingCategory' = FALSE
              /\ selectedParentCategory' = value
    /\ values' = [values EXCEPT !.categoryId = ""]
    /\ errors' = schemaErrors(values', isCreatingCategory)
    /\ UNCHANGED <<newCategory, categoryError, formFrame>>

\* handleSubcategoryChange
HandleSubcategoryChange(value) ==
    /\ modalOpen
    /\ ~isCreatingCategory
    /\ Truthy(selectedParentCategory)
    /\ value \in {""} \cup IdsOf(availableSubcategories)
    /\ value # values.categoryId
    /\ values' = [values EXCEPT !.categoryId = value]
    /\ errors' = schemaErrors(values', isCreatingCategory)
    /\ UNCHANGED <<isCreatingCategory, newCategory, categoryError,
                   selectedParentCategory, formFrame>>

\* onChange of the new category's name input
ChangeNewCategoryName(n) ==
    /\ modalOpen
    /\ isCreatingCategory
    /\ n # newCategory.name
    /\ newCategory' = [newCategory EXCEPT !.name = n]
    /\ categoryError' = IF trim(n) # Blank THEN "" ELSE categoryError
    /\ UNCHANGED <<isCreatingCategory, selectedParentCategory, values, errors, formFrame>>

\* onChange of the new category's parent select
ChangeNewCategoryParent(p) ==
    /\ modalOpen
    /\ isCreatingCategory
    /\ p \in {""} \cup IdsOf(categories)
    /\ p # newCategory.parentId
    /\ newCategory' = [newCategory EXCEPT !.parentId = p]
    /\ UNCHANGED <<isCreatingCategory, categoryError, selectedParentCategory,
                   values, errors, formFrame>>

\* the "Back to category selection" button
BackToSelection ==
    /\ modalOpen
    /\ isCreatingCategory
    /\ isCreatingCategory' = FALSE
    /\ selectedParentCategory' = ""
    /\ UNCHANGED <<newCategory, categoryError, values, errors, formFrame>>

\* the errors handleManualSubmit collects before it calls formik.submitForm
manualErrors ==
    {f \in {"title", "content", "categoryId"} :
        \/ f = "title" /\ trim(values.title) = Blank
        \/ f = "content" /\ trim(values.content) = Blank
        \/ f = "categoryId" /\ ~Truthy(values.categoryId) /\ ~isCreatingCategory
                            /\ ~Truthy(selectedParentCategory)}

\* the errors onSubmit sets when its first check finds a field missing
onSubmitErrors ==
    {f \in {"title", "content", "categoryId"} :
        \/ f = "title" /\ trim(values.title) = Blank
        \/ f = "content" /\ trim(values.content) = Blank
        \/ f = "categoryId" /\ ~Truthy(values.categoryId) /\ ~isCreatingCategory}

\* the createCategory thunk throws before the POST
createCategoryThrows(categoryData) == trim(categoryData.name) = Blank

\* mutant: the check of the required fields does not trim
createPromptThrows_NoTrim(promptData) ==
    \/ promptData.title = Blank
    \/ promptData.content = Blank
    \/ ~Truthy(promptData.categoryId)

\* the createPrompt thunk throws before the POST
createPromptThrows(promptData) ==
    \/ trim(promptData.title) = Blank
    \/ trim(promptData.content) = Blank
    \/ ~Truthy(promptData.categoryId)

\* categoryResult of an onSubmit call that has not awaited createCategory
NoResult == [requestStatus |-> "none", requestId |-> 0, id |-> Undefined]

\* the onSubmit call: what it closed over, where it is, and its local
\* categoryResult
Submission(pc, categoryRequest) ==
    [pc |-> pc, values |-> values, isCreatingCategory |-> isCreatingCategory,
     newCategory |-> newCategory, selectedParentCategory |-> selectedParentCategory,
     categoryRequest |-> categoryRequest, categoryResult |-> NoResult]

\* an onSubmit call that has returned
Returned == [pc |-> "returned"]

\* onSubmit from the fallback to the parent category on: promptData, its
\* check, and dispatch(createPrompt(promptData)) up to the POST.  reqs is
\* the requests in flight, n the onSubmit call, sub its record.
onSubmitCreatePrompt(n, sub, categoryId, reqs) ==
    LET cid == IF ~Truthy(categoryId) /\ Truthy(sub.selectedParentCategory)
               THEN sub.selectedParentCategory ELSE categoryId
        promptData == [title |-> trim(sub.values.title),
                       content |-> trim(sub.values.content),
                       description |-> trim(sub.values.description),
                       categoryId |-> cid,
                       tags |-> sub.values.tags]
    IN  IF ~Truthy(promptData.categoryId)
        THEN /\ submissions' = SetProperty(submissions, n, Returned)
             /\ requests' = reqs
             /\ UNCHANGED <<nextRequestId, promptStoreVars>>
             /\ lastAction' = lastAction
        ELSE IF createPromptThrows(promptData)
        THEN /\ submissions' = SetProperty(submissions, n, Returned)
             /\ requests' = reqs
             /\ nextRequestId' = nextRequestId + 1
             /\ promptsLoading' = FALSE
             /\ promptsError' = "Title, content, and categoryId are required"
             /\ lastAction' = [type |-> "prompts/create/rejected",
                               requestId |-> nextRequestId]
        ELSE /\ submissions' = SetProperty(submissions, n,
                    [sub EXCEPT !.pc = "awaitPrompt"])
             /\ requests' = [x \in DOMAIN reqs \cup {nextRequestId} |->
                    IF x = nextRequestId
                    THEN [type |-> "prompts/create", arg |-> promptData, owner |-> n]
                    ELSE reqs[x]]
             /\ nextRequestId' = nextRequestId + 1
             /\ promptsLoading' = TRUE
             /\ promptsError' = Null
             /\ lastAction' = [type |-> "prompts/create/pending",
                               requestId |-> nextRequestId]

\* mutant: onSubmit does not validate the new category's name
onSubmit_SkipsNameCheck(n) ==
    IF onSubmitErrors # {}
    THEN /\ errors' = onSubmitErrors
         /\ UNCHANGED <<categoryError, submissions, storeVars, promptStoreVars>>
    ELSE IF isCreatingCategory /\ trim(newCategory.name) = Blank
    THEN /\ errors' = {}
         /\ submissions' = SetProperty(submissions, n, Returned)
         /\ UNCHANGED <<categoryError, storeVars, promptStoreVars>>
    ELSE IF isCreatingCategory
    THEN LET categoryData ==
                 [name |-> trim(newCategory.name),
                  description |-> trim(newCategory.description),
                  color |-> newCategory.color,
                  parentId |-> IF Truthy(newCategory.parentId)
                               THEN newCategory.parentId ELSE Undefined]
         IN  /\ errors' = {}
             /\ requests' = SetProperty(requests, nextRequestId,
                    [type |-> "categories/createCategory", arg |-> categoryData,
                     owner |-> n])
             /\ submissions' = SetProperty(submissions, n,
                    Submission("awaitCategory", nextRequestId))
             /\ nextRequestId' = nextRequestId + 1
             /\ categoriesLoading' = TRUE
             /\ categoriesError' = Null
             /\ lastAction' = [type |-> "categories/createCategory/pending",
                               requestId |-> nextRequestId]
             /\ UNCHANGED <<categoryError, promptStoreVars>>
    ELSE /\ errors' = {}
         /\ onSubmitCreatePrompt(n, Submission("started", 0), values.categoryId, requests)
         /\ UNCHANGED <<categoryError, categoriesLoading, categoriesError>>

\* formik's onSubmit, call n, up to its first await: the check of the
\* required fields; in CREATING_NEW mode the check of the new category's
\* name and dispatch(createCategory(categoryData)) up to the POST; otherwise
\* the creation of the prompt
onSubmit(n) ==
    IF onSubmitErrors # {}
    THEN /\ errors' = onSubmitErrors
         /\ UNCHANGED <<categoryError, submissions, storeVars, promptStoreVars>>
    ELSE IF isCreatingCategory /\ trim(newCategory.name) = Blank
    THEN /\ errors' = {}
         /\ categoryError' = CategoryNameRequired
         /\ UNCHANGED <<submissions, storeVars, promptStoreVars>>
    ELSE IF isCreatingCategory
    THEN LET categoryData ==
                 [name |-> trim(newCategory.name),
                  description |-> trim(newCategory.description),
                  color |-> newCategory.color,
                  parentId |-> IF Truthy(newCategory.parentId)
                               THEN newCategory.parentId ELSE Undefined]
         IN  IF createCategoryThrows(categoryData)
             THEN /\ errors' = {}
                  /\ submissions' = SetProperty(submissions, n, Returned)
                  /\ nextRequestId' = nextRequestId + 1
                  /\ categoriesLoading' = FALSE
                  /\ categoriesError' = CategoryNameRequired
                  /\ lastAction' = [type |-> "categories/createCategory/rejected",
                                    requestId |-> nextRequestId]
                  /\ UNCHANGED <<categoryError, requests, promptStoreVars>>
             ELSE /\ errors' = {}
                  /\ requests' = SetProperty(requests, nextRequestId,
                         [type |-> "categories/createCategory", arg |-> categoryData,
                          owner |-> n])
                  /\ submissions' = SetProperty(submissions, n,
                         Submission("awaitCategory", nextRequestId))
                  /\ nextRequestId' = nextRequestId + 1
                  /\ categoriesLoading' = TRUE
                  /\ categoriesError' = Null
                  /\ lastAction' = [type |-> "categories/createCategory/pending",
                                    requestId |-> nextRequestId]
                  /\ UNCHANGED <<categoryError, promptStoreVars>>
    ELSE /\ errors' = {}
         /\ onSubmitCreatePrompt(n, Submission("started", 0), values.categoryId, requests)
         /\ UNCHANGED <<categoryError, categoriesLoading, categoriesError>>

\* the Create Prompt button: handleManualSubmit, then formik.submitForm
\* (validation by the schema, then onSubmit), while fewer than max onSubmit
\* calls have been made
HandleManualSubmitUpTo(max) ==
    /\ modalOpen
    /\ Cardinality(DOMAIN submissions) < max
    /\ IF manualErrors # {}
         THEN /\ errors' = manualErrors
              /\ UNCHANGED <<categoryError, submissions, storeVars, promptStoreVars>>
         ELSE IF schemaErrors(values, isCreatingCategory) # {}
         THEN /\ errors' = schemaErrors(values, isCreatingCategory)
              /\ UNCHANGED <<categoryError, submissions, storeVars, promptStoreVars>>
         ELSE onSubmit(Cardinality(DOMAIN submissions) + 1)
    /\ UNCHANGED <<categories, prompts, viewVars, walkVars, cacheVars, pageFormVars, apiVars, memoVars, authVars, modalOpen,
                   isCreatingCategory, newCategory, selectedParentCategory, values,
                   serverVars>>

\* the Create Prompt button
HandleManualSubmit == HandleManualSubmitUpTo(MaxSubmits)

\* mutant: the prompt is filed under the parent chosen for the new
\* category instead of under the category the API returned
CreateCategoryFulfilled_FilesUnderParent(r) ==
    /\ r \in DOMAIN requests
    /\ requests[r].type = "categories/createCategory"
    /\ LET payload == [id |-> NewCategoryIdAt[r], parentId |-> requests[r].arg.parentId]
           n == requests[r].owner
       IN  /\ categories' = Append(categories, payload)
           /\ categoriesLoading' = FALSE
           /\ categoriesError' = Null
           /\ hierarchy' = NoMemo
           /\ grouped' = NoMemo
           /\ onSubmitCreatePrompt(n,
                  [submissions[n] EXCEPT !.categoryResult =
                      [requestStatus |-> "fulfilled", requestId |-> r, id |-> payload.id]],
                  IF Truthy(payload.parentId) THEN payload.parentId ELSE payload.id,
                  WithoutRequest(r))
    /\ UNCHANGED <<prompts, walkVars, cacheVars, pageFormVars, apiVars, memoVars, authVars, modalOpen, formVars, errors, serverPrompts>>

\* POST /categories succeeded: the thunk returns the category, which
\* createCategory.fulfilled pushes; onSubmit goes on with the id returned
CreateCategoryFulfilled(r) ==
    /\ r \in DOMAIN requests
    /\ requests[r].type = "categories/createCategory"
    /\ LET payload == [id |-> NewCategoryIdAt[r], parentId |-> requests[r].arg.parentId]
           n == requests[r].owner
       IN  /\ categories' = Append(categories, payload)
           /\ categoriesLoading' = FALSE
           /\ categoriesError' = Null
           /\ hierarchy' = NoMemo
           /\ grouped' = NoMemo
           /\ onSubmitCreatePrompt(n,
                  [submissions[n] EXCEPT !.categoryResult =
                      [requestStatus |-> "fulfilled", requestId |-> r, id |-> payload.id]],
                  payload.id, WithoutRequest(r))
    /\ UNCHANGED <<prompts, walkVars, cacheVars, pageFormVars, apiVars, memoVars, authVars, modalOpen, formVars, errors, serverPrompts>>

\* what the createCategory thunk rejects with after the POST
CreateCategoryFailures ==
    {"Failed to create category", "Unexpected API response structure",
     "Failed to get ID for new category"}

\* mutant: onSubmit closes the modal when the category could not be created
CreateCategoryRejected_ClosesModal(r, message) ==
    /\ r \in DOMAIN requests
    /\ requests[r].type = "categories/createCategory"
    /\ categoriesLoading' = FALSE
    /\ categoriesError' = message
    /\ lastAction' = [type |-> "categories/createCategory/rejected", requestId |-> r]
    /\ requests' = WithoutRequest(r)
    /\ submissions' = SetProperty(submissions, requests[r].owner, Returned)
    /\ modalOpen' = FALSE
    /\ values' = InitialValues
    /\ errors' = {}
    /\ isCreatingCategory' = FALSE
    /\ newCategory' = InitialNewCategory
    /\ categoryError' = ""
    /\ selectedParentCategory' = ""
    /\ UNCHANGED <<categories, prompts, viewVars, walkVars, cacheVars, pageFormVars, apiVars, memoVars, authVars, nextRequestId,
                   promptStoreVars, serverPrompts>>

\* POST /categories failed, or its response holds no category:
\* createCategory.rejected; onSubmit shows a toast and returns
CreateCategoryRejected(r, message) ==
    /\ r \in DOMAIN requests
    /\ requests[r].type = "categories/createCategory"
    /\ categoriesLoading' = FALSE
    /\ categoriesError' = message
    /\ lastAction' = [type |-> "categories/createCategory/rejected", requestId |-> r]
    /\ requests' = WithoutRequest(r)
    /\ submissions' = SetProperty(submissions, requests[r].owner, Returned)
    /\ UNCHANGED <<categories, prompts, viewVars, walkVars, cacheVars, pageFormVars, apiVars, memoVars, authVars, nextRequestId,
                   promptStoreVars, modalOpen, formVars, errors, serverPrompts>>

\* POST /prompts succeeded: the thunk dispatches fetchPrompts (pending, GET
\* /prompts) and returns the prompt, which createPrompt.fulfilled pushes;
\* onSubmit calls handleClose
CreatePromptFulfilled(r) ==
    /\ r \in DOMAIN requests
    /\ requests[r].type = "prompts/create"
    /\ LET newPrompt == [id |-> NewPromptIdAt[r], categoryId |-> requests[r].arg.categoryId]
           reqs == WithoutRequest(r)
       IN  /\ serverPrompts' = Append(serverPrompts, newPrompt)
           /\ requests' = [x \in DOMAIN reqs \cup {nextRequestId} |->
                  IF x = nextRequestId
                  THEN [type |-> "prompts/fetchAll", arg |-> [id |-> Undefined], owner |-> 0]
                  ELSE reqs[x]]
           /\ nextRequestId' = nextRequestId + 1
           /\ prompts' = Append(prompts, newPrompt)
    /\ promptsLoading' = FALSE
    /\ promptsError' = Null
    /\ grouped' = NoMemo
    /\ submissions' = SetProperty(submissions, requests[r].owner, Returned)
    /\ modalOpen' = FALSE
    /\ lastAction' = [type |-> "prompts/create/fulfilled", requestId |-> r]
    /\ values' = InitialValues
    /\ errors' = {}
    /\ isCreatingCategory' = FALSE
    /\ newCategory' = InitialNewCategory
    /\ categoryError' = ""
    /\ selectedParentCategory' = ""
    /\ UNCHANGED <<categories, hierarchy, walkVars, cacheVars, pageFormVars, apiVars, memoVars, authVars, categoriesLoading, categoriesError>>

\* POST /prompts failed: createPrompt.rejected; unwrap throws and onSubmit
\* shows a toast
CreatePromptRejected(r) ==
    /\ r \in DOMAIN requests
    /\ requests[r].type = "prompts/create"
    /\ promptsLoading' = FALSE
    /\ promptsError' = "Failed to create prompt"
    /\ lastAction' = [type |-> "prompts/create/rejected", requestId |-> r]
    /\ requests' = WithoutRequest(r)
    /\ submissions' = SetProperty(submissions, requests[r].owner, Returned)
    /\ UNCHANGED <<categories, prompts, viewVars, walkVars, cacheVars, pageFormVars, apiVars, memoVars, authVars, nextRequestId,
                   categoriesLoading, categoriesError, modalOpen, formVars, errors,
                   serverPrompts>>

\* GET /prompts succeeded: fetchPrompts.fulfilled replaces the cached list
FetchPromptsFulfilled(r) ==
    /\ r \in DOMAIN requests
    /\ requests[r].type = "prompts/fetchAll"
    /\ prompts' = serverPrompts
    /\ promptsLoading' = FALSE
    /\ promptsError' = Null
    /\ grouped' = NoMemo
    /\ lastAction' = [type |-> "prompts/fetchAll/fulfilled", requestId |-> r]
    /\ requests' = WithoutRequest(r)
    /\ UNCHANGED <<categories, hierarchy, walkVars, cacheVars, pageFormVars, apiVars, memoVars, authVars, nextRequestId, categoriesLoading,
                   categoriesError, modalVars, errors, serverPrompts>>

\* GET /prompts failed: fetchPrompts.rejected
FetchPromptsRejected(r) ==
    /\ r \in DOMAIN requests
    /\ requests[r].type = "prompts/fetchAll"
    /\ promptsLoading' = FALSE
    /\ promptsError' = RequestFailedMessage
    /\ lastAction' = [type |-> "prompts/fetchAll/rejected", requestId |-> r]
    /\ requests' = WithoutRequest(r)
    /\ UNCHANGED <<categories, prompts, viewVars, walkVars, cacheVars, pageFormVars, apiVars, memoVars, authVars, nextRequestId,
                   categoriesLoading, categoriesError, modalVars, errors, serverPrompts>>

\* the requestIds the modal's thunks can have
ModalRequestIds == 1..(3 * MaxSubmits)

NextModal ==
    \/ OpenModal
    \/ HandleClose
    \/ \E t \in Titles : ChangeTitle(t)
    \/ \E c \in Contents : ChangeContent(c)
    \/ \E value \in {"", "c1", "c2", NEW_CATEGORY_OPTION} : HandleParentCategoryChange(value)
    \/ \E value \in {"", "c1", "c2"} : HandleSubcategoryChange(value)
    \/ \E n \in Names : ChangeNewCategoryName(n)
    \/ \E p \in {"", "c1"} : ChangeNewCategoryParent(p)
    \/ BackToSelection
    \/ HandleManualSubmit
    \/ \E r \in ModalRequestIds : CreateCategoryFulfilled(r)
    \/ \E r \in ModalRequestIds, message \in CreateCategoryFailures :
           CreateCategoryRejected(r, message)
    \/ \E r \in ModalRequestIds : CreatePromptFulfilled(r)
    \/ \E r \in ModalRequestIds : CreatePromptRejected(r)
    \/ \E r \in ModalRequestIds : FetchPromptsFulfilled(r)
    \/ \E r \in ModalRequestIds : FetchPromptsRejected(r)

SpecModal == InitModal /\ [][NextModal]_vars

\* the create-prompt requests in flight that belong to an onSubmit call
\* made in CREATING_NEW mode
PromptRequestsOfNewCategory ==
    {r \in DOMAIN requests :
        /\ requests[r].type = "prompts/create"
        /\ submissions[requests[r].owner].isCreatingCategory}

\* C8: when the modal is submitted in CREATING_NEW mode, a create-prompt
\* request is sent only after the create-category request of the same
\* submission has succeeded (never while it is outstanding, never after it
\* failed), and the categoryId it carries is the id that request returned.
C8_PromptAfterCategory ==
    \A r \in PromptRequestsOfNewCategory :
        LET sub == submissions[requests[r].owner] IN
        /\ sub.categoryRequest \notin DOMAIN requests
        /\ sub.categoryResult.requestId = sub.categoryRequest
        /\ sub.categoryResult.requestStatus = "fulfilled"
        /\ requests[r].arg.categoryId = sub.categoryResult.id
        /\ requests[r].arg.categoryId = NewCategoryIdAt[sub.categoryRequest]

C8_Witness ==
    \E r \in PromptRequestsOfNewCategory :
        /\ submissions[requests[r].owner].newCategory.parentId = "c1"
        /\ requests[r].arg.categoryId = NewCategoryIdAt[submissions[requests[r].owner].categoryRequest]
        /\ \E c \in DOMAIN categories : categories[c].id = requests[r].arg.categoryId

\* a press of Create Prompt in CREATING_NEW mode with a blank new-category
\* name
SubmitWithBlankName ==
    /\ HandleManualSubmit
    /\ isCreatingCategory
    /\ trim(newCategory.name) = Blank

\* no request is sent, no thunk is dispatched and no onSubmit call is left
\* waiting
NothingSent ==
    /\ requests' = requests
    /\ nextRequestId' = nextRequestId
    /\ submissions' = submissions
    /\ UNCHANGED <<categories, prompts, categoriesLoading, categoriesError,
                   promptStoreVars, lastAction, serverVars>>

\* C9 as stated: a submit in CREATING_NEW mode with a blank (or
\* whitespace-only) new-category name is blocked, sets the category error
\* to "Category name is required" and makes no remote call, whatever the
\* other fields of the form contain.
C9_BlankNameBlocks ==
    [][SubmitWithBlankName =>
          /\ categoryError' = CategoryNameRequired
          /\ NothingSent]_vars

\* C9 amended: a submit in CREATING_NEW mode with a blank (or
\* whitespace-only) new-category name is blocked and makes no remote call,
\* whatever the other fields contain; it sets the category error to
\* "Category name is required" when title and content are both non-blank
\* after trimming, and otherwise reports the missing title or content and
\* leaves the category error as it was.
C9_BlankNameBlocksAfterTitleAndContent ==
    [][SubmitWithBlankName =>
          /\ NothingSent
          /\ IF trim(values.title) # Blank /\ trim(values.content) # Blank
               THEN categoryError' = CategoryNameRequired
               ELSE /\ categoryError' = categoryError
                    /\ errors' \cap {"title", "content"} # {}]_vars

C9_Witness ==
    /\ modalOpen
    /\ isCreatingCategory
    /\ newCategory.name = <<" ">>
    /\ trim(values.title) # Blank
    /\ trim(values.content) # Blank
    /\ categoryError = CategoryNameRequired
    /\ errors = {}
    /\ requests = EmptyObject
    /\ submissions = EmptyObject
    /\ nextRequestId = 1

----------------------------------------------------------------------------
(* The two modes of the create-prompt form: SELECTING_EXISTING is          *)
(* ~isCreatingCategory, CREATING_NEW is isCreatingCategory.                *)

\* C18: every transition of the create-prompt form from SELECTING_EXISTING
\* to CREATING_NEW clears the selected existing category: after it the
\* selected parent category and the form's categoryId are both empty.
C18_EnteringNewClearsSelection ==
    [][(~isCreatingCategory /\ isCreatingCategory') =>
          /\ selectedParentCategory' = ""
          /\ values'.categoryId = ""]_vars

\* "Create new category" has just been chosen: the validation that
\* setFieldValue('categoryId', '') ran with the schema of SELECTING_EXISTING
\* has left its error, and nothing is selected
C18_Witness ==
    /\ modalOpen
    /\ isCreatingCategory
    /\ "categoryId" \in errors
    /\ trim(values.title) # Blank
    /\ selectedParentCategory = ""
    /\ values.categoryId = ""

\* C19: every transition from CREATING_NEW back to SELECTING_EXISTING clears
\* the new-category draft: name, description and parent empty, the colour
\* the default, the category error empty.
C19_LeavingNewClearsDraft ==
    [][(isCreatingCategory /\ ~isCreatingCategory') =>
          /\ newCategory' = InitialNewCategory
          /\ categoryError' = ""]_vars

\* the form is open in SELECTING_EXISTING mode with a title, a content and
\* a selected top-level category
ReadyToSubmitExisting ==
    /\ modalOpen
    /\ ~isCreatingCategory
    /\ Truthy(selectedParentCategory)
    /\ trim(values.title) # Blank
    /\ trim(values.content) # Blank

\* a press of Create Prompt would be stopped by handleManualSubmit, by the
\* schema or by onSubmit's own check, before anything is dispatched
SubmitBlocked ==
    \/ manualErrors # {}
    \/ schemaErrors(values, isCreatingCategory) # {}
    \/ onSubmitErrors # {}

\* a press of Create Prompt in that state
SubmitOfExisting == HandleManualSubmit /\ ReadyToSubmitExisting

\* the create-prompt requests the step sends
PromptRequestsSent ==
    {r \in DOMAIN requests' \ DOMAIN requests : requests'[r].type = "prompts/create"}

\* C23: in SELECTING_EXISTING mode the subcategories offered are exactly the
\* categories whose parentId is the selected top-level category, so the
\* chosen subcategory is empty or one of them; changing the selected parent
\* clears the chosen subcategory; and a submit sends the prompt with the
\* chosen subcategory as its categoryId if one is chosen and with the
\* selected parent otherwise.
C23_CategoryOfExistingSent ==
    /\ []((modalOpen /\ ~isCreatingCategory) =>
             /\ values.categoryId \in {""} \cup IdsOf(availableSubcategories)
             /\ \A i \in DOMAIN categories :
                   Occurs(availableSubcategories, categories[i]) <=>
                       (Truthy(selectedParentCategory)
                          /\ categories[i].parentId = selectedParentCategory))
    /\ [][selectedParentCategory' # selectedParentCategory =>
              values'.categoryId = ""]_vars
    /\ [](ReadyToSubmitExisting => ~SubmitBlocked)
    /\ [][SubmitOfExisting =>
              \E r \in PromptRequestsSent :
                  requests'[r].arg.categoryId =
                      IF Truthy(values.categoryId) THEN values.categoryId
                      ELSE selectedParentCategory]_vars

\* the parts of C23 that hold: what is offered, the clearing, and the
\* categoryId of every create-prompt request a submit of SELECTING_EXISTING
\* sends
C23_SentCategoryIsChosen ==
    /\ []((modalOpen /\ ~isCreatingCategory) =>
             values.categoryId \in {""} \cup IdsOf(availableSubcategories))
    /\ [][selectedParentCategory' # selectedParentCategory =>
              values'.categoryId = ""]_vars
    /\ []((ReadyToSubmitExisting /\ Truthy(values.categoryId)) => ~SubmitBlocked)
    /\ [][SubmitOfExisting =>
              \A r \in PromptRequestsSent :
                  /\ Truthy(values.categoryId)
                  /\ requests'[r].arg.categoryId = values.categoryId]_vars

\* the create-category requests in flight that the step ends with
\* createCategory.rejected
CategoryRequestsRejected ==
    {r \in DOMAIN requests \ DOMAIN requests' :
        /\ requests[r].type = "categories/createCategory"
        /\ lastAction' = [type |-> "categories/createCategory/rejected", requestId |-> r]}

\* C24: when the create-category request of a CREATING_NEW submission is
\* rejected (the POST failed, or its response holds no category or no id),
\* the submission stops: no create-prompt request is sent and no thunk is
\* dispatched, the onSubmit call has returned, the modal, its mode, the form
\* values and the draft are as they were, and so are the cached prompt and
\* category lists.
C24_RejectedCategoryStops ==
    [][\A r \in CategoryRequestsRejected :
          /\ submissions'[requests[r].owner] = Returned
          /\ \A x \in DOMAIN requests' :
                /\ x \in DOMAIN requests
                /\ requests'[x] = requests[x]
                /\ requests'[x].owner # requests[r].owner
          /\ nextRequestId' = nextRequestId
          /\ UNCHANGED <<modalOpen, isCreatingCategory, values, newCategory>>
          /\ UNCHANGED <<prompts, categories, serverPrompts>>]_vars

\* the request of a submission made in CREATING_NEW mode has been rejected
\* for a missing id: the modal is still open with the title, the content
\* and the draft's name the user typed, and nothing is in flight
C24_Witness ==
    /\ lastAction.type = "categories/createCategory/rejected"
    /\ categoriesError = "Failed to get ID for new category"
    /\ DOMAIN submissions = {1}
    /\ submissions[1] = Returned
    /\ requests = EmptyObject
    /\ modalOpen
    /\ isCreatingCategory
    /\ trim(values.title) # Blank
    /\ trim(newCategory.name) # Blank
    /\ newCategory.parentId = "c1"
    /\ Len(categories) = 2
    /\ prompts = <<>>

----------------------------------------------------------------------------
(* The category and prompt slices as a cache of what the API holds.  A     *)
(* thunk is dispatched (pending is reduced, the request is sent), the API  *)
(* answers it at some moment, and the answer arrives at some later moment  *)
(* (fulfilled) or the call fails (rejected), in any order among the        *)
(* requests in flight.  The API is a plain store of the two collections:   *)
(* it answers a PUT, DELETE or GET of an id it does not hold with an       *)
(* error.                                                                  *)

MaxCacheRequests == 2

CategoryThunks ==
    {"categories/fetchCategories", "categories/createCategory",
     "categories/updateCategory", "categories/deleteCategory"}

PromptThunks ==
    {"prompts/fetchAll", "prompts/fetchById", "prompts/create", "prompts/update",
     "prompts/delete", "prompts/search"}

\* the collection a thunk belongs to
SliceOf(type) == IF type \in CategoryThunks THEN "categories" ELSE "prompts"

\* what the API holds when the session starts; the client has fetched it
ServerCategoriesAtStart ==
    <<[id |-> "c1", parentId |-> Undefined], [id |-> "c2", parentId |-> "c1"]>>
ServerPromptsAtStart == <<[id |-> "p1", categoryId |-> "c1"]>>

\* the arguments the pages dispatch the thunks with
CategoryArgs(type) ==
    CASE type = "categories/fetchCategories" -> {[id |-> Undefined, parentId |-> Undefined]}
      [] type = "categories/createCategory" -> {[id |-> Undefined, parentId |-> "c1"]}
      [] type = "categories/updateCategory" ->
             {[id |-> "c1", parentId |-> "c2"], [id |-> "c2", parentId |-> Undefined]}
      [] type = "categories/deleteCategory" -> {[id |-> "c2", parentId |-> Undefined]}

PromptArgs(type) ==
    CASE type = "prompts/fetchAll" -> {[id |-> Undefined, categoryId |-> Undefined]}
      [] type = "prompts/fetchById" -> {[id |-> "p1", categoryId |-> Undefined]}
      [] type = "prompts/create" -> {[id |-> Undefined, categoryId |-> "c2"]}
      [] type = "prompts/update" -> {[id |-> "p1", categoryId |-> "c2"]}
      [] type = "prompts/delete" -> {[id |-> "p1", categoryId |-> Undefined]}
      [] type = "prompts/search" -> {[id |-> Undefined, categoryId |-> Undefined]}

InitCache ==
    /\ categories = ServerCategoriesAtStart
    /\ prompts = ServerPromptsAtStart
    /\ serverCategories = ServerCategoriesAtStart
    /\ serverPrompts = ServerPromptsAtStart
    /\ hierarchy = NoMemo
    /\ grouped = NoMemo
    /\ WalkIdle
    /\ StoreIdle
    /\ promptsLoading = FALSE
    /\ promptsError = Null
    /\ modalOpen = FALSE
    /\ isCreatingCategory = FALSE
    /\ newCategory = InitialNewCategory
    /\ categoryError = ""
    /\ selectedParentCategory = ""
    /\ values = InitialValues
    /\ errors = {}
    /\ submissions = EmptyObject
    /\ exchanges = EmptyObject
    /\ currentPrompt = NoPrompt
    /\ searchResults = <<>>
    /\ searchQuery = ""
    /\ FormIdle
    /\ ApiIdle
    /\ MemoIdle
    /\ AuthIdle

\* what no thunk of the two slices touches
cacheFrame == <<viewVars, walkVars, modalVars>>

\* the first index of the entry with this id, 0 when there is none
\* (findIndex, + 1)
findIndex(list, x) ==
    IF \E i \in DOMAIN list : list[i].id = x
    THEN CHOOSE i \in DOMAIN list : list[i].id = x /\ \A j \in 1..(i - 1) : list[j].id # x
    ELSE 0

\* list[index] = item
SetAt(list, index, item) == [i \in DOMAIN list |-> IF i = index THEN item ELSE list[i]]

\* a request the API has not answered
NotAnswered == [status |-> "none", items |-> <<>>]

\* an answer of the API: 2xx with the entities of its body, or an error
Answer(items) == [status |-> "ok", items |-> items]
ErrorAnswer == [status |-> "error", items |-> <<>>]

\* dispatch(thunk(arg)) of the category slice: pending is reduced and the
\* request is sent
DispatchCategoryThunk(type, arg) ==
    /\ nextRequestId <= MaxCacheRequests
    /\ requests' = SetProperty(requests, nextRequestId, [type |-> type, arg |-> arg])
    /\ exchanges' = SetProperty(exchanges, nextRequestId,
                        [type |-> type, response |-> NotAnswered, outcome |-> "pending"])
    /\ nextRequestId' = nextRequestId + 1
    /\ categoriesLoading' = TRUE
    /\ categoriesError' = Null
    /\ lastAction' = [type |-> type \o "/pending", requestId |-> nextRequestId]
    /\ UNCHANGED <<categories, prompts, promptStoreVars, serverVars, serverCategories,
                   currentPrompt, searchResults, searchQuery, cacheFrame, pageFormVars, apiVars, memoVars, authVars>>

\* dispatch(thunk(arg)) of the prompt slice: pending is reduced and the
\* request is sent
DispatchPromptThunk(type, arg) ==
    /\ nextRequestId <= MaxCacheRequests
    /\ requests' = SetProperty(requests, nextRequestId, [type |-> type, arg |-> arg])
    /\ exchanges' = SetProperty(exchanges, nextRequestId,
                        [type |-> type, response |-> NotAnswered, outcome |-> "pending"])
    /\ nextRequestId' = nextRequestId + 1
    /\ promptsLoading' = TRUE
    /\ promptsError' = Null
    /\ lastAction' = [type |-> type \o "/pending", requestId |-> nextRequestId]
    /\ UNCHANGED <<categories, prompts, categoriesLoading, categoriesError, serverVars,
                   serverCategories, currentPrompt, searchResults, searchQuery, cacheFrame, pageFormVars, apiVars, memoVars, authVars>>

\* the API handles request r
Serve(r) ==
    /\ r \in DOMAIN requests
    /\ exchanges[r].response = NotAnswered
    /\ LET type == requests[r].type
           arg == requests[r].arg
           held == IF type \in CategoryThunks THEN serverCategories ELSE serverPrompts
           index == findIndex(held, arg.id)
           created == IF type = "categories/createCategory"
                      THEN [id |-> NewCategoryIdAt[r], parentId |-> arg.parentId]
                      ELSE [id |-> NewPromptIdAt[r], categoryId |-> arg.categoryId]
           updated == arg
           answer ==
               CASE type \in {"categories/fetchCategories", "prompts/fetchAll",
                              "prompts/search"} -> Answer(held)
                 [] type \in {"categories/createCategory", "prompts/create"} ->
                        Answer(<<created>>)
                 [] type = "prompts/fetchById" ->
                        IF index = 0 THEN ErrorAnswer ELSE Answer(<<held[index]>>)
                 [] type \in {"categories/updateCategory", "prompts/update"} ->
                        IF index = 0 THEN ErrorAnswer ELSE Answer(<<updated>>)
                 [] type \in {"categories/deleteCategory", "prompts/delete"} ->
                        IF index = 0 THEN ErrorAnswer ELSE Answer(<<>>)
           after ==
               CASE type \in {"categories/createCategory", "prompts/create"} ->
                        Append(held, created)
                 [] type \in {"categories/updateCategory", "prompts/update"} ->
                        SetAt(held, index, updated)
                 [] type \in {"categories/deleteCategory", "prompts/delete"} ->
                        SelectSeq(held, LAMBDA x : x.id # arg.id)
                 [] OTHER -> held
       IN  /\ exchanges' = [exchanges EXCEPT ![r].response = answer]
           /\ IF type \in CategoryThunks
                THEN serverCategories' = after /\ UNCHANGED serverPrompts
                ELSE serverPrompts' = after /\ UNCHANGED serverCategories
    /\ UNCHANGED <<categories, prompts, storeVars, promptStoreVars, currentPrompt,
                   searchResults, searchQuery, cacheFrame, pageFormVars, apiVars, memoVars, authVars>>

\* fetchPrompts: prompts.map(prompt => ({ ...prompt, id: prompt.id || '', ... }))
normalizePrompt(prompt) ==
    [prompt EXCEPT !.id = IF Truthy(prompt.id) THEN prompt.id ELSE ""]

normalizePrompts(list) == [i \in DOMAIN list |-> normalizePrompt(list[i])]

\* mutant: updateCategory.fulfilled appends the returned category instead
\* of replacing the cached one
categoriesFulfilled_UpdateAppends(type, cats, arg, items) ==
    CASE type = "categories/fetchCategories" -> items
      [] type = "categories/createCategory" -> Append(cats, items[1])
      [] type = "categories/updateCategory" -> Append(cats, items[1])
      [] type = "categories/deleteCategory" -> SelectSeq(cats, LAMBDA cat : cat.id # arg.id)

\* the extraReducers of the category slice on fulfilled: state.categories
\* after the thunk of this type and argument returned these entities
categoriesFulfilled(type, cats, arg, items) ==
    CASE type = "categories/fetchCategories" -> items
      [] type = "categories/createCategory" -> Append(cats, items[1])
      [] type = "categories/updateCategory" ->
             IF findIndex(cats, items[1].id) # 0
             THEN SetAt(cats, findIndex(cats, items[1].id), items[1])
             ELSE cats
      [] type = "categories/deleteCategory" -> SelectSeq(cats, LAMBDA cat : cat.id # arg.id)

\* mutant: fetchPrompts.fulfilled appends the response to the cached list
promptsFulfilled_FetchAppends(type, list, arg, items) ==
    CASE type = "prompts/fetchAll" -> list \o normalizePrompts(items)
      [] type = "prompts/create" -> Append(list, items[1])
      [] type = "prompts/update" ->
             IF findIndex(list, items[1].id) # 0
             THEN SetAt(list, findIndex(list, items[1].id), items[1])
             ELSE list
      [] type = "prompts/delete" -> SelectSeq(list, LAMBDA prompt : prompt.id # arg.id)
      [] OTHER -> list

\* mutant: fetchPrompts.fulfilled merges the response into the cached list
promptsFulfilled_Merges(type, list, arg, items) ==
    CASE type = "prompts/fetchAll" ->
             list \o SelectSeq(normalizePrompts(items),
                               LAMBDA x : \A i \in DOMAIN list : list[i].id # x.id)
      [] type = "prompts/create" -> Append(list, items[1])
      [] type = "prompts/update" ->
             IF findIndex(list, items[1].id) # 0
             THEN SetAt(list, findIndex(list, items[1].id), items[1])
             ELSE list
      [] type = "prompts/delete" -> SelectSeq(list, LAMBDA prompt : prompt.id # arg.id)
      [] OTHER -> list

\* the extraReducers of the prompt slice on fulfilled: state.prompts
promptsFulfilled(type, list, arg, items) ==
    CASE type = "prompts/fetchAll" -> normalizePrompts(items)
      [] type = "prompts/create" -> Append(list, items[1])
      [] type = "prompts/update" ->
             IF findIndex(list, items[1].id) # 0
             THEN SetAt(list, findIndex(list, items[1].id), items[1])
             ELSE list
      [] type = "prompts/delete" -> SelectSeq(list, LAMBDA prompt : prompt.id # arg.id)
      [] OTHER -> list

\* state.currentPrompt after fulfilled
currentPromptFulfilled(type, current, items) ==
    CASE type = "prompts/fetchById" -> items[1]
      [] type = "prompts/update" ->
             IF current # NoPrompt /\ current.id = items[1].id THEN items[1] ELSE current
      [] OTHER -> current

\* the query the search box sends
SearchQuery == "q"

\* the answer to a request of the category slice arrived: the thunk
\* returns and fulfilled is reduced
categoryFulfilledReduced(r) ==
    /\ r \in DOMAIN requests
    /\ requests[r].type \in CategoryThunks
    /\ exchanges[r].response.status = "ok"
    /\ categories' = categoriesFulfilled(requests[r].type, categories, requests[r].arg,
                                         exchanges[r].response.items)
    /\ categoriesLoading' = FALSE
    /\ categoriesError' = Null
    /\ requests' = WithoutRequest(r)
    /\ exchanges' = [exchanges EXCEPT ![r].outcome = "fulfilled"]
    /\ lastAction' = [type |-> requests[r].type \o "/fulfilled", requestId |-> r]
    /\ hierarchy' = NoMemo
    /\ grouped' = NoMemo
    /\ UNCHANGED <<prompts, nextRequestId, promptStoreVars, serverVars, serverCategories,
                   currentPrompt, searchResults, searchQuery, walkVars, modalVars, apiVars, memoVars, authVars>>

\* the answer to a request of the category slice that no form awaits
CategoryThunkFulfilled(r) == categoryFulfilledReduced(r) /\ UNCHANGED pageFormVars

\* the answer to a request of the prompt slice arrived: the thunk returns
\* and fulfilled is reduced; createPrompt has dispatched fetchPrompts before
\* it returned
PromptThunkFulfilled(r) ==
    /\ r \in DOMAIN requests
    /\ requests[r].type \in PromptThunks
    /\ exchanges[r].response.status = "ok"
    /\ LET type == requests[r].type
           items == exchanges[r].response.items
           reqs == WithoutRequest(r)
           settled == [exchanges EXCEPT ![r].outcome = "fulfilled"]
       IN  /\ prompts' = promptsFulfilled(type, prompts, requests[r].arg, items)
           /\ currentPrompt' = currentPromptFulfilled(type, currentPrompt, items)
           /\ IF type = "prompts/search"
                THEN searchResults' = items /\ searchQuery' = SearchQuery
                ELSE UNCHANGED <<searchResults, searchQuery>>
           /\ IF type = "prompts/create"
                THEN /\ requests' = [x \in DOMAIN reqs \cup {nextRequestId} |->
                            IF x = nextRequestId
                            THEN [type |-> "prompts/fetchAll",
                                  arg |-> [id |-> Undefined, categoryId |-> Undefined]]
                            ELSE reqs[x]]
                     /\ exchanges' = SetProperty(settled, nextRequestId,
                            [type |-> "prompts/fetchAll", response |-> NotAnswered,
                             outcome |-> "pending"])
                     /\ nextRequestId' = nextRequestId + 1
                ELSE /\ requests' = reqs
                     /\ exchanges' = settled
                     /\ UNCHANGED nextRequestId
           /\ lastAction' = [type |-> type \o "/fulfilled", requestId |-> r]
    /\ promptsLoading' = FALSE
    /\ promptsError' = Null
    /\ grouped' = NoMemo
    /\ UNCHANGED <<categories, categoriesLoading, categoriesError, serverVars,
                   serverCategories, hierarchy, walkVars, modalVars, pageFormVars,
                   apiVars, memoVars, authVars>>

\* a request of the category slice failed (no answer, an error answer, or
\* an answer that was lost): rejectWithValue(message), rejected is reduced
CategoryThunkRejected(r) ==
    /\ r \in DOMAIN requests
    /\ requests[r].type \in CategoryThunks
    /\ categoriesLoading' = FALSE
    /\ categoriesError' = RequestFailedMessage
    /\ requests' = WithoutRequest(r)
    /\ exchanges' = [exchanges EXCEPT ![r].outcome = "rejected"]
    /\ lastAction' = [type |-> requests[r].type \o "/rejected", requestId |-> r]
    /\ UNCHANGED <<categories, prompts, nextRequestId, promptStoreVars, serverVars,
                   serverCategories, currentPrompt, searchResults, searchQuery, cacheFrame, pageFormVars, apiVars, memoVars, authVars>>

\* mutant: a rejected request of the prompt slice empties the search results
PromptThunkRejected_ClearsResults(r) ==
    /\ r \in DOMAIN requests
    /\ requests[r].type \in PromptThunks
    /\ promptsLoading' = FALSE
    /\ promptsError' = RequestFailedMessage
    /\ searchResults' = <<>>
    /\ requests' = WithoutRequest(r)
    /\ exchanges' = [exchanges EXCEPT ![r].outcome = "rejected"]
    /\ lastAction' = [type |-> requests[r].type \o "/rejected", requestId |-> r]
    /\ UNCHANGED <<categories, prompts, nextRequestId, categoriesLoading, categoriesError,
                   serverVars, serverCategories, currentPrompt, searchQuery, cacheFrame, pageFormVars, apiVars, memoVars, authVars>>

\* a request of the prompt slice failed: rejected is reduced
PromptThunkRejected(r) ==
    /\ r \in DOMAIN requests
    /\ requests[r].type \in PromptThunks
    /\ promptsLoading' = FALSE
    /\ promptsError' = RequestFailedMessage
    /\ requests' = WithoutRequest(r)
    /\ exchanges' = [exchanges EXCEPT ![r].outcome = "rejected"]
    /\ lastAction' = [type |-> requests[r].type \o "/rejected", requestId |-> r]
    /\ UNCHANGED <<categories, prompts, nextRequestId, categoriesLoading, categoriesError,
                   serverVars, serverCategories, currentPrompt, searchResults, searchQuery,
                   cacheFrame, pageFormVars, apiVars, memoVars, authVars>>

\* the requestIds of the cache specification: each createPrompt adds one
CacheRequestIds == 1..(2 * MaxCacheRequests)

NextCache ==
    \/ \E type \in CategoryThunks : \E arg \in CategoryArgs(type) :
           DispatchCategoryThunk(type, arg)
    \/ \E type \in PromptThunks : \E arg \in PromptArgs(type) :
           DispatchPromptThunk(type, arg)
    \/ \E r \in CacheRequestIds : Serve(r)
    \/ \E r \in CacheRequestIds : CategoryThunkFulfilled(r)
    \/ \E r \in CacheRequestIds : PromptThunkFulfilled(r)
    \/ \E r \in CacheRequestIds : CategoryThunkRejected(r)
    \/ \E r \in CacheRequestIds : PromptThunkRejected(r)

SpecCache == InitCache /\ [][NextCache]_vars

\* the store has just reduced the action of this type
Reduced(type) == lastAction' # lastAction /\ lastAction'.type = type

\* the request whose action the store has just reduced
ReducedRequest == lastAction'.requestId

\* what the API answered to request r
ResponseOf(r) == exchanges[r].response.items

\* C11: when a fetchCategories or fetchPrompts request succeeds, the cached
\* list of that collection becomes exactly the fetched list: nothing of the
\* previous cache survives unless it is in the response, nothing is merged.
C11_FetchReplacesCache ==
    [][/\ Reduced("categories/fetchCategories/fulfilled") =>
             categories' = ResponseOf(ReducedRequest)
       /\ Reduced("prompts/fetchAll/fulfilled") =>
             prompts' = ResponseOf(ReducedRequest)]_vars

\* a fetch has replaced a cached prompt list by the empty list the API
\* answered with
C11_Witness ==
    /\ lastAction.type = "prompts/fetchAll/fulfilled"
    /\ ResponseOf(lastAction.requestId) = <<>>
    /\ prompts = <<>>
    /\ \E r \in DOMAIN requests : requests[r].type = "prompts/delete"

\* the action the store has just reduced is the pending or the rejected
\* action of some thunk of the two slices
ReducedPendingOrRejected ==
    /\ lastAction' # lastAction
    /\ \E type \in CategoryThunks \cup PromptThunks :
          lastAction'.type \in {type \o "/pending", type \o "/rejected"}

\* C12: when a remote call of the category or prompt store fails, the
\* cached category list, prompt list, current prompt and search results are
\* what they were before the call: neither its dispatch nor its rejection
\* changes them; only the loading flag and the error message of its slice
\* change.
C12_FailureKeepsCache ==
    [][ReducedPendingOrRejected =>
          /\ UNCHANGED <<categories, prompts, currentPrompt, searchResults, searchQuery>>
          /\ IF SliceOf(exchanges'[ReducedRequest].type) = "categories"
               THEN UNCHANGED promptStoreVars
               ELSE UNCHANGED <<categoriesLoading, categoriesError>>]_vars

\* a search was answered, then an update of the current prompt failed
C12_Witness ==
    /\ lastAction.type = "prompts/update/rejected"
    /\ promptsError = RequestFailedMessage
    /\ ~promptsLoading
    /\ searchResults # <<>>
    /\ prompts = ServerPromptsAtStart
    /\ categories = ServerCategoriesAtStart

\* the requests in flight for a collection
InFlight(slice) == {r \in DOMAIN requests : SliceOf(requests[r].type) = slice}

\* C16: at every moment there is at most one outstanding request per
\* entity collection (categories, prompts).
C16_OneRequestPerCollection ==
    \A slice \in {"categories", "prompts"} : Cardinality(InFlight(slice)) <= 1

\* the fetches of a collection dispatched so far
Fetches(type) == {r \in DOMAIN exchanges : exchanges[r].type = type}

\* every fetch of the collection dispatched so far has been fulfilled
AllFetched(type) ==
    /\ Fetches(type) # {}
    /\ \A r \in Fetches(type) : exchanges[r].outcome = "fulfilled"

\* the fetch of the collection dispatched last
LatestFetch(type) == CHOOSE r \in Fetches(type) : \A x \in Fetches(type) : x <= r

\* C17: for every interleaving of the arrivals of several fetches of one
\* collection, once all of them have completed successfully the cached list
\* equals the response of the most recently issued fetch.
C17_LatestFetchWins ==
    [][/\ (Reduced("categories/fetchCategories/fulfilled")
             /\ AllFetched("categories/fetchCategories")') =>
             categories' = ResponseOf(LatestFetch("categories/fetchCategories"))'
       /\ (Reduced("prompts/fetchAll/fulfilled") /\ AllFetched("prompts/fetchAll")') =>
             prompts' = ResponseOf(LatestFetch("prompts/fetchAll"))']_vars

\* list with the entry at position i replaced by item
ReplacedAt(before, after, i, item) ==
    /\ Len(after) = Len(before)
    /\ after[i] = item
    /\ \A j \in DOMAIN before \ {i} : after[j] = before[j]

\* what a fulfilled create, update or delete of the thunk family (create,
\* update, delete) makes of the cached list: before it, after it
MutationReflected(create, update, delete, before, after) ==
    LET r == ReducedRequest
        arg == requests[r].arg
    IN  /\ Reduced(create \o "/fulfilled") =>
              /\ Occurs(after, ResponseOf(r)[1])
              /\ SubSeq(after, 1, Len(before)) = before
        /\ Reduced(update \o "/fulfilled") =>
              IF \E i \in DOMAIN before : before[i].id = arg.id
              THEN \E i \in DOMAIN before :
                      /\ before[i].id = arg.id
                      /\ ReplacedAt(before, after, i, ResponseOf(r)[1])
              ELSE after = before
        /\ Reduced(delete \o "/fulfilled") =>
              /\ \A i \in DOMAIN after : after[i].id # arg.id
              /\ after = SubSeqAt(before, {i \in DOMAIN before : before[i].id # arg.id})

\* C20: after a mutation through the store succeeds the cached collection
\* reflects it: after create the new entity is in the cached list, after
\* update the cached entity with that id is replaced by the returned one at
\* the same position and all other entries are unchanged, after delete no
\* entity with that id remains and the others keep their order.
C20_MutationReflected ==
    [][/\ MutationReflected("categories/createCategory", "categories/updateCategory",
                            "categories/deleteCategory", categories, categories')
       /\ MutationReflected("prompts/create", "prompts/update", "prompts/delete",
                            prompts, prompts')]_vars

\* an update has replaced the first cached category in place
C20_Witness ==
    /\ lastAction.type = "categories/updateCategory/fulfilled"
    /\ Len(categories) = 2
    /\ categories[1] = [id |-> "c1", parentId |-> "c2"]
    /\ categories[2] = [id |-> "c2", parentId |-> "c1"]

\* the requests of the prompt slice dispatched so far
PromptExchanges == {x \in DOMAIN exchanges : SliceOf(exchanges[x].type) = "prompts"}

\* createPrompt r has been fulfilled, the fetchPrompts f it dispatched has
\* been fulfilled, and the prompt slice has had no other request
OnlyCreateAndItsFetch(r, f) ==
    /\ PromptExchanges = {r, f}
    /\ exchanges[r].type = "prompts/create"
    /\ exchanges[r].outcome = "fulfilled"
    /\ exchanges[f].type = "prompts/fetchAll"
    /\ exchanges[f].outcome = "fulfilled"

\* C26: after a createPrompt has succeeded and the fetchPrompts it
\* dispatched has completed successfully, with no other request of the
\* prompt slice, the cached prompt list holds the new prompt exactly once
\* (createPrompt.fulfilled always reaches the store before the
\* fetchPrompts.fulfilled of the fetch it dispatched).
C26_CreatedPromptOnce ==
    \A r, f \in DOMAIN exchanges : OnlyCreateAndItsFetch(r, f) =>
        /\ Cardinality({i \in DOMAIN prompts : prompts[i].id = NewPromptIdAt[r]}) = 1
        /\ Cardinality(PositionsOf(prompts, ResponseOf(r)[1])) = 1

\* the create and its fetch have both been fulfilled while a request of the
\* category slice was dispatched in between
C26_Witness ==
    /\ OnlyCreateAndItsFetch(1, 3)
    /\ exchanges[2].type = "categories/fetchCategories"
    /\ requests = EmptyObject
    /\ prompts = <<[id |-> "p1", categoryId |-> "c1"], [id |-> "q1", categoryId |-> "c2"]>>


----------------------------------------------------------------------------
(* The category form of CategoriesPage: one formik form in a modal, used   *)
(* to create a category and to edit one.  Its parent select offers every   *)
(* cached category but the one being edited.                               *)

\* the names typed into the form
FormNames == {"", "n"}

InitForm ==
    /\ categories = ServerCategoriesAtStart
    /\ prompts = <<>>
    /\ serverCategories = ServerCategoriesAtStart
    /\ serverPrompts = <<>>
    /\ hierarchy = NoMemo
    /\ grouped = NoMemo
    /\ WalkIdle
    /\ StoreIdle
    /\ ModalIdle
    /\ exchanges = EmptyObject
    /\ currentPrompt = NoPrompt
    /\ searchResults = <<>>
    /\ searchQuery = ""
    /\ FormIdle
    /\ ApiIdle
    /\ MemoIdle
    /\ AuthIdle

\* what the handlers of the form leave alone
pageFormFrame ==
    <<categories, prompts, viewVars, walkVars, storeVars, promptStoreVars, modalVars,
      serverVars, cacheVars, apiVars, memoVars, authVars>>

\* handleOpenCreateModal(parentId?): the form is reset, the parent preset
\* (by the zero-delay timer when one is passed)
handleOpenCreateModal(parent) ==
    /\ currentCategory' = NoCategory
    /\ formValues' = [name |-> "", parentId |-> parent]
    /\ categoryModal' = categoryModal \cup {"createCategory"}
    /\ UNCHANGED pageFormFrame

\* handleOpenEditModal(category): enableReinitialize resets the form when
\* the initial values change
handleOpenEditModal(category) ==
    /\ currentCategory' = category
    /\ formValues' = IF formInitialValues(category) = formInitialValues(currentCategory)
                     THEN formValues
                     ELSE formInitialValues(category)
    /\ categoryModal' = categoryModal \cup {"editCategory"}
    /\ UNCHANGED pageFormFrame

\* what handleCloseModal does to the page
closeCategoryModal ==
    /\ currentCategory' = NoCategory
    /\ formValues' = formInitialValues(NoCategory)
    /\ categoryModal' = {}

handleCloseModal ==
    /\ categoryModal # {}
    /\ closeCategoryModal
    /\ UNCHANGED pageFormFrame

\* the name input
ChangeFormName(name) ==
    /\ categoryModal # {}
    /\ formValues' = [formValues EXCEPT !.name = name]
    /\ UNCHANGED <<currentCategory, categoryModal, pageFormFrame>>

\* the options of the parent select: no parent, or any cached category but
\* the one being edited
ParentOptions ==
    {""} \cup {categories[i].id : i \in {j \in DOMAIN categories :
                                            categories[j].id # currentCategory.id}}

\* the parent select
ChangeFormParentId(value) ==
    /\ categoryModal # {}
    /\ value \in ParentOptions
    /\ formValues' = [formValues EXCEPT !.parentId = value]
    /\ UNCHANGED <<currentCategory, categoryModal, pageFormFrame>>

\* formik.handleSubmit: categorySchema requires the name, then onSubmit
\* dispatches updateCategory for the category being edited and
\* createCategory otherwise
SubmitCategoryForm ==
    /\ categoryModal # {}
    /\ formValues.name # ""
    /\ IF currentCategory # NoCategory
         THEN DispatchCategoryThunk("categories/updateCategory",
                  [id |-> currentCategory.id, parentId |-> formValues.parentId])
         ELSE DispatchCategoryThunk("categories/createCategory",
                  [id |-> Undefined,
                   parentId |-> IF Truthy(formValues.parentId) THEN formValues.parentId
                                                              ELSE Null])

\* the awaited thunk succeeded: fulfilled is reduced, onSubmit closes the
\* modal
SubmitFulfilled(r) == categoryFulfilledReduced(r) /\ closeCategoryModal

\* the awaited thunk failed: rejected is reduced, onSubmit shows a toast
SubmitRejected(r) == CategoryThunkRejected(r)

NextForm ==
    \/ \E parent \in {""} \cup IdsOf(categories) : handleOpenCreateModal(parent)
    \/ \E i \in DOMAIN categories : handleOpenEditModal(categories[i])
    \/ handleCloseModal
    \/ \E name \in FormNames : ChangeFormName(name)
    \/ \E value \in {""} \cup IdsOf(categories) : ChangeFormParentId(value)
    \/ SubmitCategoryForm
    \/ \E r \in CacheRequestIds : Serve(r)
    \/ \E r \in CacheRequestIds : SubmitFulfilled(r)
    \/ \E r \in CacheRequestIds : SubmitRejected(r)

SpecForm == InitForm /\ [][NextForm]_vars

\* the parentId of the first category of the list with this id
parentOf(list, cid) ==
    LET index == findIndex(list, cid)
    IN  IF index = 0 THEN Undefined ELSE list[index].parentId

\* following parentId from category `from` reaches `target` in n steps or less
RECURSIVE Climbs(_, _, _, _)
Climbs(list, from, target, n) ==
    /\ n > 0
    /\ Truthy(parentOf(list, from))
    /\ \/ parentOf(list, from) = target
       \/ Climbs(list, parentOf(list, from), target, n - 1)

\* C15: the parent graph of the cached categories is acyclic in every
\* reachable state, after any sequence of creations and updates through
\* the category form.
C15_ParentGraphAcyclic ==
    \A i \in DOMAIN categories :
        ~Climbs(categories, categories[i].id, categories[i].id, Len(categories))


----------------------------------------------------------------------------
(* The API client (services/api.ts) and the token storage of the auth      *)
(* slice.  A token is what jwtDecode makes of it: a payload that decodes   *)
(* or not, and its exp claim (0: the claim is missing).  The client runs   *)
(* in Electron, with the Electron store and localStorage as a fallback, or *)
(* in the browser with localStorage alone.                                 *)

MaxTime == 1
MaxApiRequests == 2

\* the tokens a store can hold
Tokens ==
    {[payload |-> "jwt", exp |-> e] : e \in 0..MaxTime} \cup {[payload |-> "garbage", exp |-> 0]}

\* the URLs requested through the client, and the URLs that contain
\* '/auth/login' or '/auth/register'
Urls == {"/auth/login", "/auth/register", "/categories"}
isAuthEndpoint(url) == url \in {"/auth/login", "/auth/register"}

\* the pages, and the pathnames that contain '/login' or '/register'
Paths == {"/login", "/register", "/"}
onAuthPage(path) == path \in {"/login", "/register"}

InitApi ==
    /\ categories = <<>>
    /\ prompts = <<>>
    /\ hierarchy = NoMemo
    /\ grouped = NoMemo
    /\ WalkIdle
    /\ StoreIdle
    /\ ModalIdle
    /\ CacheIdle
    /\ FormIdle
    /\ MemoIdle
    /\ AuthIdle
    /\ electron \in BOOLEAN
    /\ electronToken \in (IF electron THEN Tokens \cup {NoToken} ELSE {NoToken})
    /\ localToken \in (IF electron THEN {NoToken} ELSE Tokens \cup {NoToken})
    /\ isAuthenticating = FALSE
    /\ loginInFlight = FALSE
    /\ location \in {"/login", "/"}
    /\ now = 0
    /\ apiRequests = EmptyObject
    /\ nextApiId = 1
    /\ lastResponse = NoResponse

\* what the API client and the auth thunks leave alone
apiFrame ==
    <<categories, prompts, viewVars, walkVars, storeVars, promptStoreVars, modalVars,
      serverVars, cacheVars, pageFormVars, memoVars, authVars>>

\* mutant: a token is valid as soon as it decodes
isTokenValid_IgnoresExpiry(token, currentTime) ==
    token.payload = "jwt"

\* isTokenValid: jwtDecode throws on a token that does not decode; a token
\* without exp is valid; otherwise exp > currentTime
isTokenValid(token, currentTime) ==
    IF token.payload # "jwt"
    THEN FALSE
    ELSE IF token.exp = 0 THEN TRUE ELSE token.exp > currentTime

\* the token the request interceptor finds: the Electron store first, then
\* localStorage, in Electron; localStorage in the browser
lookupToken ==
    IF electron
    THEN IF electronToken # NoToken THEN electronToken ELSE localToken
    ELSE localToken

\* the Authorization header the request interceptor sets (NoToken: none)
authorizationFor(url) ==
    IF isAuthEndpoint(url)
    THEN NoToken
    ELSE IF lookupToken # NoToken /\ isTokenValid(lookupToken, now)
         THEN lookupToken
         ELSE NoToken

\* a request through the client: the request interceptor runs (in Electron
\* a token found only in localStorage is saved to the Electron store), the
\* request is sent
SendRequest(url) ==
    /\ nextApiId <= MaxApiRequests
    /\ apiRequests' = SetProperty(apiRequests, nextApiId,
                          [url |-> url, authorization |-> authorizationFor(url)])
    /\ nextApiId' = nextApiId + 1
    /\ electronToken' = IF ~isAuthEndpoint(url) /\ electron /\ electronToken = NoToken
                        THEN localToken
                        ELSE electronToken
    /\ UNCHANGED <<electron, localToken, isAuthenticating, loginInFlight, location, now,
                   lastResponse, apiFrame>>

\* the requests in flight but r
WithoutApiRequest(r) == [k \in DOMAIN apiRequests \ {r} |-> apiRequests[k]]

\* the response interceptor on success: a response of an auth endpoint
\* resets the flag
RespondSuccess(r) ==
    /\ r \in DOMAIN apiRequests
    /\ isAuthenticating' = IF isAuthEndpoint(apiRequests[r].url) THEN FALSE
                                                                 ELSE isAuthenticating
    /\ apiRequests' = WithoutApiRequest(r)
    /\ lastResponse' = [id |-> r, url |-> apiRequests[r].url, status |-> 200]
    /\ UNCHANGED <<electron, electronToken, localToken, loginInFlight, location, now,
                   nextApiId, apiFrame>>

\* the 401 of this request is one the response interceptor handles
handles401(url, status) ==
    status = 401 /\ ~isAuthenticating /\ ~isAuthEndpoint(url)

\* the response interceptor on an error: a handled 401 clears the token of
\* the environment and, off the login and register pages, loads /login
\* (the page is loaded anew: the module starts again, the requests in
\* flight are dropped)
RespondError(r, status) ==
    /\ r \in DOMAIN apiRequests
    /\ lastResponse' = [id |-> r, url |-> apiRequests[r].url, status |-> status]
    /\ IF handles401(apiRequests[r].url, status)
         THEN /\ IF electron
                   THEN electronToken' = NoToken /\ UNCHANGED localToken
                   ELSE localToken' = NoToken /\ UNCHANGED electronToken
              /\ IF ~onAuthPage(location)
                   THEN /\ location' = "/login"
                        /\ apiRequests' = EmptyObject
                        /\ loginInFlight' = FALSE
                   ELSE /\ apiRequests' = WithoutApiRequest(r)
                        /\ UNCHANGED <<location, loginInFlight>>
         ELSE /\ apiRequests' = WithoutApiRequest(r)
              /\ UNCHANGED <<electronToken, localToken, location, loginInFlight>>
    /\ UNCHANGED <<electron, isAuthenticating, now, nextApiId, apiFrame>>

\* clearToken of the auth slice
clearToken ==
    IF electron
    THEN electronToken' = NoToken /\ UNCHANGED localToken
    ELSE localToken' = NoToken /\ UNCHANGED electronToken

\* setToken of the auth slice
setToken(token) ==
    IF token = NoToken
    THEN clearToken
    ELSE IF electron
         THEN electronToken' = token /\ UNCHANGED localToken
         ELSE localToken' = token /\ UNCHANGED electronToken

\* the login and register thunks start: setAuthenticating(true), then
\* axios.post outside the client
LoginPending ==
    /\ ~loginInFlight
    /\ loginInFlight' = TRUE
    /\ isAuthenticating' = TRUE
    /\ UNCHANGED <<electron, electronToken, localToken, location, now, apiRequests, nextApiId,
                   lastResponse, apiFrame>>

\* the answer arrived: the token of the response (none when the response
\* has no token) is stored and the thunk returns it
LoginFulfilled(token) ==
    /\ loginInFlight
    /\ loginInFlight' = FALSE
    /\ setToken(token)
    /\ UNCHANGED <<electron, isAuthenticating, location, now, apiRequests, nextApiId,
                   lastResponse, apiFrame>>

\* the call failed: setAuthenticating(false)
LoginRejected ==
    /\ loginInFlight
    /\ loginInFlight' = FALSE
    /\ isAuthenticating' = FALSE
    /\ UNCHANGED <<electron, electronToken, localToken, location, now, apiRequests, nextApiId,
                   lastResponse, apiFrame>>

\* the logout thunk
Logout ==
    /\ lookupToken # NoToken
    /\ clearToken
    /\ UNCHANGED <<electron, isAuthenticating, loginInFlight, location, now, apiRequests,
                   nextApiId, lastResponse, apiFrame>>

\* the router shows another page
Navigate(path) ==
    /\ location # path
    /\ location' = path
    /\ UNCHANGED <<electron, electronToken, localToken, isAuthenticating, loginInFlight, now,
                   apiRequests, nextApiId, lastResponse, apiFrame>>

\* time passes
Tick ==
    /\ now < MaxTime
    /\ now' = now + 1
    /\ UNCHANGED <<electron, electronToken, localToken, isAuthenticating, loginInFlight,
                   location, apiRequests, nextApiId, lastResponse, apiFrame>>

\* the tokens the server issues: they decode and have not expired
IssuedTokens == {t \in Tokens : t.payload = "jwt" /\ (t.exp = 0 \/ t.exp > now)}

ApiRequestIds == 1..MaxApiRequests

NextApi ==
    \/ \E url \in Urls : SendRequest(url)
    \/ \E r \in ApiRequestIds : RespondSuccess(r)
    \/ \E r \in ApiRequestIds, status \in {401, 500} : RespondError(r, status)
    \/ LoginPending
    \/ \E token \in IssuedTokens \cup {NoToken} : LoginFulfilled(token)
    \/ LoginRejected
    \/ Logout
    \/ \E path \in Paths : Navigate(path)
    \/ Tick

SpecApi == InitApi /\ [][NextApi]_vars

\* the client has just received a 401 for a request to a non-auth endpoint
Received401 ==
    /\ lastResponse' # lastResponse
    /\ lastResponse'.status = 401
    /\ lastResponse'.url \notin {"/auth/login", "/auth/register"}

\* C13: in every reachable state, also after a login has succeeded earlier
\* in the session, a 401 response to a request on a non-auth endpoint
\* clears the stored credential, so that the next token lookup finds no
\* token in any storage location, and sends the client to the login page.
C13_UnauthorizedClearsToken ==
    [][Received401 =>
          /\ electronToken' = NoToken
          /\ localToken' = NoToken
          /\ location' \in {"/login", "/register"}]_vars

\* the tokens the stores of the environment hold
StoredTokens == {electronToken, localToken} \ {NoToken}

\* the token decodes and has not expired
Usable(token) == token.payload = "jwt" /\ (token.exp = 0 \/ now < token.exp)

\* the request the client has just sent
Sent == apiRequests'[nextApiId]

C27_AuthenticatingOnlyInFlight == isAuthenticating => loginInFlight


----------------------------------------------------------------------------
(* SpecRender: CategoriesPage renders again on lists that are structurally *)
(* the same (a fetch delivered an equal list): both memos are evaluated    *)
(* anew, categoryHierarchy first.                                          *)

MaxRenders == 2

\* mutant: the tree builder takes the roots out of the list it was given
\* (categories.splice), so the cached list shrinks
Render_SplicesInput ==
    /\ renders < MaxRenders
    /\ renders' = renders + 1
    /\ hierarchy' = categoryHierarchy(categories)
    /\ grouped' = IF hierarchy'.status = "TypeError" THEN grouped
                  ELSE promptsByCategory(prompts, categories)
    /\ categories' = SelectSeq(categories, LAMBDA category : Truthy(category.parentId))
    /\ UNCHANGED <<prompts, walkVars, storeVars, promptStoreVars, modalVars, serverVars,
                   cacheVars, pageFormVars, apiVars, filteredView, rendered, authVars>>

\* one render: the memos read the cached lists and build new arrays and
\* objects; an exception of the first memo ends the render
Render ==
    /\ renders < MaxRenders
    /\ renders' = renders + 1
    /\ hierarchy' = categoryHierarchy(categories)
    /\ grouped' = IF hierarchy'.status = "TypeError" THEN grouped
                  ELSE promptsByCategory(prompts, categories)
    /\ UNCHANGED <<categories, prompts, walkVars, storeVars, promptStoreVars, modalVars,
                   serverVars, cacheVars, pageFormVars, apiVars, filteredView, rendered,
                   authVars>>

NextRender == Render

SpecRender == InitGroup /\ [][NextRender]_vars

----------------------------------------------------------------------------
(* SpecFiltered: the filtered view of CategoriesPage (route                *)
(* /categories/:id) collects the subcategories of the selected category.   *)
(* A call chain of findAllSubcategories longer than the list names some id *)
(* twice and so never ends: the engine ends it with a RangeError (maximum  *)
(* call stack size exceeded).                                              *)

RECURSIVE findAllSubcategories(_, _, _)
RECURSIVE collectSubcategories(_, _, _, _, _)

\* findAllSubcategories(categoryId), called at this depth of the stack
findAllSubcategories(cats, categoryId, depth) ==
    IF depth > Len(cats)
    THEN [status |-> "RangeError", subcategories |-> <<>>]
    ELSE LET directChildren == SelectSeq(cats, LAMBDA cat : cat.parentId = categoryId)
         IN  collectSubcategories(cats, directChildren, 1, directChildren, depth)

\* directChildren.forEach(child => { allChildren = [...allChildren,
\* ...findAllSubcategories(child.id)] }) from child i on
collectSubcategories(cats, directChildren, i, allChildren, depth) ==
    IF i > Len(directChildren)
    THEN [status |-> "ok", subcategories |-> allChildren]
    ELSE LET childrenOfChild == findAllSubcategories(cats, directChildren[i].id, depth + 1)
         IN  IF childrenOfChild.status # "ok"
             THEN childrenOfChild
             ELSE collectSubcategories(cats, directChildren, i + 1,
                      allChildren \o childrenOfChild.subcategories, depth)

\* the filteredView memo: null without a route id or a category of that id
filteredViewOf(routeId, cats) ==
    IF ~Truthy(routeId) \/ findIndex(cats, routeId) = 0
    THEN [status |-> "null", subcategories |-> <<>>]
    ELSE findAllSubcategories(cats, routeId, 1)

InitFiltered ==
    /\ categories \in SeqsUpTo(TreeCategory, MaxTreeCats)
    /\ prompts = <<>>
    /\ hierarchy = NoMemo
    /\ grouped = NoMemo
    /\ id \in TreeIds \cup {Undefined}
    /\ expandedCategories = EmptyObject
    /\ newExpandedState = EmptyObject
    /\ parentId = Undefined
    /\ effectPc = "idle"
    /\ StoreIdle
    /\ ModalIdle
    /\ CacheIdle
    /\ FormIdle
    /\ ApiIdle
    /\ MemoIdle
    /\ AuthIdle

RenderFilteredView ==
    /\ filteredView = NoMemo
    /\ filteredView' = filteredViewOf(id, categories)
    /\ UNCHANGED <<categories, prompts, viewVars, walkVars, storeVars, promptStoreVars,
                   modalVars, serverVars, cacheVars, pageFormVars, apiVars, renders, rendered,
                   authVars>>

NextFiltered == RenderFilteredView

SpecFiltered == InitFiltered /\ [][NextFiltered]_vars

\* C22: collecting all subcategories of the selected category terminates
\* for every category list, also one with a cyclic parent chain, and for an
\* acyclic list with distinct ids returns every transitive descendant of
\* the selected category exactly once and nothing else.
C22_SubcategoriesCollected ==
    /\ filteredView.status # "RangeError"
    /\ (filteredView.status = "ok" /\ DistinctIds(categories) /\ Acyclic(categories)) =>
          /\ \A i \in DOMAIN categories :
                Cardinality(PositionsOf(filteredView.subcategories, categories[i])) =
                    IF id \in Ancestors(categories, categories[i].id) THEN 1 ELSE 0
          /\ \A k \in DOMAIN filteredView.subcategories :
                Occurs(categories, filteredView.subcategories[k])

----------------------------------------------------------------------------
(* The createPrompt thunk by itself, dispatched with any promptData: its   *)
(* check of the required fields, the POST, the fetchPrompts it dispatches   *)
(* after the POST, and the reducers of both thunks.                         *)

MaxThunks == 3

\* the promptData createPrompt is dispatched with
PromptDatas ==
    [title : Titles, content : Contents, description : {Blank},
     categoryId : {Undefined, "", "c1", "c2"}, tags : {<<>>}]

\* formattedData, the body of the POST
formattedData(promptData) ==
    [title |-> trim(promptData.title),
     content |-> trim(promptData.content),
     categoryId |-> promptData.categoryId,
     description |-> IF promptData.description # Blank
                     THEN trim(promptData.description) ELSE Blank,
     tags |-> promptData.tags]

\* dispatch(createPrompt(promptData)): createPrompt.pending, then the check
\* of the required fields, which rejects, or the POST
DispatchCreatePrompt(promptData) ==
    /\ nextRequestId <= MaxThunks
    /\ nextRequestId' = nextRequestId + 1
    /\ IF createPromptThrows(promptData)
         THEN /\ promptsLoading' = FALSE
              /\ promptsError' = "Title, content, and categoryId are required"
              /\ lastAction' = [type |-> "prompts/create/rejected",
                                requestId |-> nextRequestId]
              /\ UNCHANGED requests
         ELSE /\ promptsLoading' = TRUE
              /\ promptsError' = Null
              /\ lastAction' = [type |-> "prompts/create/pending",
                                requestId |-> nextRequestId]
              /\ requests' = SetProperty(requests, nextRequestId,
                     [type |-> "prompts/create", arg |-> formattedData(promptData),
                      owner |-> 0])
    /\ UNCHANGED <<categories, prompts, viewVars, walkVars, cacheVars, pageFormVars,
                   apiVars, memoVars, authVars, categoriesLoading, categoriesError,
                   modalVars, serverVars>>

\* POST /prompts succeeded: the thunk dispatches fetchPrompts (pending, GET
\* /prompts) and returns the prompt, which createPrompt.fulfilled pushes
PostPromptsFulfilled(r) ==
    /\ r \in DOMAIN requests
    /\ requests[r].type = "prompts/create"
    /\ LET newPrompt == [id |-> NewPromptIdAt[r], categoryId |-> requests[r].arg.categoryId]
       IN  /\ serverPrompts' = Append(serverPrompts, newPrompt)
           /\ prompts' = Append(prompts, newPrompt)
    /\ requests' = SetProperty(WithoutRequest(r), nextRequestId,
           [type |-> "prompts/fetchAll", arg |-> [id |-> Undefined], owner |-> 0])
    /\ nextRequestId' = nextRequestId + 1
    /\ promptsLoading' = FALSE
    /\ promptsError' = Null
    /\ grouped' = NoMemo
    /\ lastAction' = [type |-> "prompts/create/fulfilled", requestId |-> r]
    /\ UNCHANGED <<categories, hierarchy, walkVars, cacheVars, pageFormVars, apiVars,
                   memoVars, authVars, categoriesLoading, categoriesError, modalVars>>

\* POST /prompts failed: createPrompt.rejected
PostPromptsRejected(r) ==
    /\ r \in DOMAIN requests
    /\ requests[r].type = "prompts/create"
    /\ promptsLoading' = FALSE
    /\ promptsError' = "Failed to create prompt"
    /\ lastAction' = [type |-> "prompts/create/rejected", requestId |-> r]
    /\ requests' = WithoutRequest(r)
    /\ UNCHANGED <<categories, prompts, viewVars, walkVars, cacheVars, pageFormVars,
                   apiVars, memoVars, authVars, nextRequestId, categoriesLoading,
                   categoriesError, modalVars, serverVars>>

\* the requestIds of the thunks
ThunkRequestIds == 1..(2 * MaxThunks)

NextCreate ==
    \/ \E promptData \in PromptDatas : DispatchCreatePrompt(promptData)
    \/ \E r \in ThunkRequestIds : PostPromptsFulfilled(r)
    \/ \E r \in ThunkRequestIds : PostPromptsRejected(r)
    \/ \E r \in ThunkRequestIds : FetchPromptsFulfilled(r)
    \/ \E r \in ThunkRequestIds : FetchPromptsRejected(r)

SpecCreate == InitModal /\ [][NextCreate]_vars

\* title and content are non-blank after trimming and categoryId is
\* non-empty
RequiredFieldsPresent(promptData) ==
    /\ trim(promptData.title) # Blank
    /\ trim(promptData.content) # Blank
    /\ promptData.categoryId \notin {Undefined, Null, ""}

\* C25: createPrompt sends POST /prompts only when title and content are
\* non-blank after trimming and categoryId is non-empty, and then it sends
\* exactly that one request; otherwise the thunk is rejected with an error,
\* no request is sent, no fetchPrompts is dispatched and the cached prompt
\* list is as it was.
C25_CreatePromptChecksFields ==
    [][\A promptData \in PromptDatas : DispatchCreatePrompt(promptData) =>
          IF RequiredFieldsPresent(promptData)
          THEN /\ DOMAIN requests' = DOMAIN requests \cup {nextRequestId}
               /\ requests'[nextRequestId].type = "prompts/create"
               /\ \A x \in DOMAIN requests : requests'[x] = requests[x]
               /\ lastAction'.type = "prompts/create/pending"
          ELSE /\ lastAction' = [type |-> "prompts/create/rejected",
                                 requestId |-> nextRequestId]
               /\ promptsError' \notin {Null, Undefined, ""}
               /\ requests' = requests
               /\ nextRequestId' = nextRequestId + 1
               /\ prompts' = prompts
               /\ serverPrompts' = serverPrompts]_vars

\* a createPrompt with a whitespace title has been rejected after an earlier
\* one was sent: the earlier request is still the only one in flight
C25_Witness ==
    /\ lastAction = [type |-> "prompts/create/rejected", requestId |-> 2]
    /\ promptsError = "Title, content, and categoryId are required"
    /\ DOMAIN requests = {1}
    /\ requests[1].type = "prompts/create"
    /\ requests[1].arg.title = <<"t">>
    /\ prompts = <<>>

----------------------------------------------------------------------------
(* The auth slice with the token helpers that fall back to localStorage    *)
(* (uiSlice.ts): setToken, getToken, clearToken, and the thunks login,      *)
(* register, logout and checkAuth with their reducers.  A thunk and the     *)
(* reducer of its result are one step.  In Electron a call of               *)
(* window.electron.setAuthToken goes through IPC and either resolves or     *)
(* throws: ipc says which, for the calls of one thunk.                      *)

MaxAuthSteps == 4

\* what a token helper leaves: the token it returns and the two stores
Stored(token, e, l) == [token |-> token, electronToken |-> e, localToken |-> l]

\* getToken: in Electron the Electron store, then localStorage, whose token
\* is saved back to the Electron store; in the browser localStorage
getToken(e, l, ipc) ==
    IF electron
    THEN IF e # NoToken
         THEN Stored(e, e, l)
         ELSE IF l # NoToken
              THEN Stored(l, IF ipc THEN l ELSE e, l)
              ELSE Stored(NoToken, e, l)
    ELSE Stored(l, e, l)

\* clearToken: window.electron.clearAuthToken() in Electron,
\* localStorage.removeItem in the browser, then the getToken that verifies
clearTokenOf(e, l, ipc) ==
    IF electron
    THEN getToken(NoToken, l, ipc)
    ELSE getToken(e, NoToken, ipc)

\* setToken: the Electron store, or localStorage when the call throws; the
\* getToken that verifies; localStorage again when it found nothing
setTokenOf(token, e, l, ipc) ==
    IF token = NoToken
    THEN clearTokenOf(e, l, ipc)
    ELSE LET saved == IF electron
                      THEN IF ipc THEN getToken(token, l, ipc)
                                  ELSE getToken(e, token, ipc)
                      ELSE getToken(e, token, ipc)
         IN  IF saved.token = NoToken /\ electron
             THEN Stored(token, saved.electronToken, token)
             ELSE saved

\* jwtDecode(token) succeeds
decodes(token) == token.payload = "jwt"

\* the auth state after login.fulfilled, register.fulfilled and a
\* checkAuth.fulfilled with a token
authenticatedWith(token, state) ==
    [user |-> IF decodes(token) THEN "u" ELSE state.user,
     token |-> token,
     isAuthenticated |-> TRUE]

\* the auth state after logout.fulfilled, logout.rejected, checkAuth.rejected
\* and a checkAuth.fulfilled without a token
Unauthenticated == [user |-> Null, token |-> NoToken, isAuthenticated |-> FALSE]

InitAuth ==
    /\ categories = <<>>
    /\ prompts = <<>>
    /\ hierarchy = NoMemo
    /\ grouped = NoMemo
    /\ WalkIdle
    /\ StoreIdle
    /\ ModalIdle
    /\ CacheIdle
    /\ FormIdle
    /\ MemoIdle
    /\ AuthIdle
    /\ electron \in BOOLEAN
    /\ electronToken = NoToken
    /\ localToken = NoToken
    /\ isAuthenticating = FALSE
    /\ loginInFlight = FALSE
    /\ location = "/"
    /\ now = 0
    /\ apiRequests = EmptyObject
    /\ nextApiId = 1
    /\ lastResponse = NoResponse

\* what the auth thunks leave alone
authFrame ==
    <<categories, prompts, viewVars, walkVars, storeVars, promptStoreVars, modalVars,
      serverVars, cacheVars, pageFormVars, memoVars, electron, loginInFlight, location,
      now, apiRequests, nextApiId, lastResponse>>

\* the thunk has left the stores as the helper says
StoresBecome(stored) ==
    /\ electronToken' = stored.electronToken
    /\ localToken' = stored.localToken

\* login with valid credentials: setAuthenticating(true), the POST, the
\* direct save (which ends the saving when it throws), setToken, the
\* getToken that double-checks; login.fulfilled
LoginSucceeds(token, ipc) ==
    /\ Len(authLog) < MaxAuthSteps
    /\ isAuthenticating' = TRUE
    /\ IF electron
         THEN IF ipc
              THEN LET saved == setTokenOf(token, token, localToken, ipc)
                   IN  StoresBecome(getToken(saved.electronToken, saved.localToken, ipc))
              ELSE UNCHANGED <<electronToken, localToken>>
         ELSE LET saved == setTokenOf(token, electronToken, token, ipc)
              IN  StoresBecome(getToken(saved.electronToken, saved.localToken, ipc))
    /\ auth' = authenticatedWith(token, auth)
    /\ authLog' = Append(authLog, "auth/login/fulfilled")
    /\ UNCHANGED authFrame

\* register: setAuthenticating(true), the POST, setToken; register.fulfilled
RegisterSucceeds(token, ipc) ==
    /\ Len(authLog) < MaxAuthSteps
    /\ isAuthenticating' = TRUE
    /\ StoresBecome(setTokenOf(token, electronToken, localToken, ipc))
    /\ auth' = authenticatedWith(token, auth)
    /\ authLog' = Append(authLog, "auth/register/fulfilled")
    /\ UNCHANGED authFrame

\* logout: clearToken, which catches what it throws; logout.fulfilled
LogoutCompletes(ipc) ==
    /\ Len(authLog) < MaxAuthSteps
    /\ StoresBecome(clearTokenOf(electronToken, localToken, ipc))
    /\ auth' = Unauthenticated
    /\ authLog' = Append(authLog, "auth/logout/fulfilled")
    /\ UNCHANGED <<isAuthenticating, authFrame>>

\* checkAuth: getToken; a token that does not decode or has expired is
\* cleared; checkAuth.fulfilled
CheckAuth(ipc) ==
    /\ Len(authLog) < MaxAuthSteps
    /\ LET found == getToken(electronToken, localToken, ipc)
           token == found.token
           expired == token.exp # 0 /\ token.exp < now
       IN  IF token = NoToken
           THEN /\ StoresBecome(found)
                /\ auth' = Unauthenticated
           ELSE IF ~decodes(token) \/ expired
           THEN /\ StoresBecome(clearTokenOf(found.electronToken, found.localToken, ipc))
                /\ auth' = Unauthenticated
           ELSE /\ StoresBecome(found)
                /\ auth' = authenticatedWith(token, auth)
    /\ authLog' = Append(authLog, "auth/checkAuth/fulfilled")
    /\ UNCHANGED <<isAuthenticating, authFrame>>

NextAuth ==
    \/ \E token \in IssuedTokens, ipc \in BOOLEAN : LoginSucceeds(token, ipc)
    \/ \E token \in IssuedTokens, ipc \in BOOLEAN : RegisterSucceeds(token, ipc)
    \/ \E ipc \in BOOLEAN : LogoutCompletes(ipc)
    \/ \E ipc \in BOOLEAN : CheckAuth(ipc)
    \/ Tick

SpecAuth == InitAuth /\ [][NextAuth]_vars

\* a logout has completed and no login or register has completed since
LoggedOut ==
    \E i \in DOMAIN authLog :
        /\ authLog[i] = "auth/logout/fulfilled"
        /\ \A j \in DOMAIN authLog :
              j > i => authLog[j] \notin {"auth/login/fulfilled", "auth/register/fulfilled"}

\* C28: after logout has completed, and until a login or register
\* completes, the auth state has no user, no token and isAuthenticated
\* false, and getToken finds no token, in the browser and in Electron: a
\* checkAuth finds none and leaves the state unauthenticated.
C28_LogoutStaysLoggedOut ==
    LoggedOut =>
        /\ auth = Unauthenticated
        /\ \A ipc \in BOOLEAN : getToken(electronToken, localToken, ipc).token = NoToken

----------------------------------------------------------------------------
(* The all-categories view: CategoriesPage renders a CategoryItem for each *)
(* root category, and an expanded CategoryItem renders one for each entry   *)
(* of childrenMap[category.id].  rendered holds the categories a render     *)
(* made a CategoryItem for, in the order of the page.                       *)

\* expansion states left by toggleCategoryExpand
ExpandedAtStart ==
    {[k \in S |-> TRUE] : S \in {{}, {"c1"}, {"c1", "c2"}, TreeIds}}

\* expandedCategories[category.id] || false
isExpanded(expanded, k) ==
    IF k \in DOMAIN expanded THEN expanded[k] ELSE k \in ObjectPrototypeKeys

\* what a render made: the CategoryItems in page order, and how it ended
Made(status, items) == [status |-> status, items |-> items]

RECURSIVE CategoryItem_RendersChildrenTwice(_, _, _, _, _)
RECURSIVE CategoryItem(_, _, _, _, _)
RECURSIVE CategoryItems(_, _, _, _, _, _)

\* mutant: the subcategories are rendered a second time after the prompts
CategoryItem_RendersChildrenTwice(cats, childrenMap, expanded, category, depth) ==
    IF depth > Len(cats)
    THEN Made("RangeError", <<>>)
    ELSE IF ~isExpanded(expanded, category.id) \/ category.id \notin DOMAIN childrenMap
    THEN Made("ok", <<category>>)
    ELSE LET below == CategoryItems(cats, childrenMap, expanded,
                                    childrenMap[category.id], 1, depth + 1)
         IN  Made(below.status, <<category>> \o below.items \o below.items)

\* CategoryItem: children = childrenMap[category.id] || []; when expanded,
\* children.map renders a CategoryItem for each of them.  An inherited
\* property is no array: children.map is not a function.  A chain of more
\* than Len(cats) nested items repeats a category and never ends.
CategoryItem(cats, childrenMap, expanded, category, depth) ==
    IF depth > Len(cats)
    THEN Made("RangeError", <<>>)
    ELSE IF ~isExpanded(expanded, category.id)
    THEN Made("ok", <<category>>)
    ELSE IF category.id \in DOMAIN childrenMap
    THEN LET below == CategoryItems(cats, childrenMap, expanded,
                                    childrenMap[category.id], 1, depth + 1)
         IN  Made(below.status, <<category>> \o below.items)
    ELSE IF category.id \in ObjectPrototypeKeys
    THEN Made("TypeError", <<category>>)
    ELSE Made("ok", <<category>>)

\* list.map(category => <CategoryItem ... />) from entry i on
CategoryItems(cats, childrenMap, expanded, list, i, depth) ==
    IF i > Len(list)
    THEN Made("ok", <<>>)
    ELSE LET first == CategoryItem(cats, childrenMap, expanded, list[i], depth) IN
         IF first.status # "ok"
         THEN first
         ELSE LET rest == CategoryItems(cats, childrenMap, expanded, list, i + 1, depth)
              IN  Made(rest.status, first.items \o rest.items)

\* categoryHierarchy.rootCategories.map(category => <CategoryItem ... />)
renderedOf(cats, expanded) ==
    LET h == categoryHierarchy(cats) IN
    IF h.status # "ok"
    THEN Made(h.status, <<>>)
    ELSE CategoryItems(cats, h.childrenMap, expanded, h.rootCategories, 1, 0)

InitItems ==
    /\ categories \in SeqsUpTo(TreeCategory, MaxTreeCats)
    /\ prompts = <<>>
    /\ hierarchy = NoMemo
    /\ grouped = NoMemo
    /\ id = Undefined
    /\ expandedCategories \in ExpandedAtStart
    /\ newExpandedState = EmptyObject
    /\ parentId = Undefined
    /\ effectPc = "idle"
    /\ StoreIdle
    /\ ModalIdle
    /\ CacheIdle
    /\ FormIdle
    /\ ApiIdle
    /\ MemoIdle
    /\ AuthIdle

\* a render of the all-categories view
RenderCategoryItems ==
    /\ rendered = NoMemo
    /\ hierarchy' = categoryHierarchy(categories)
    /\ rendered' = renderedOf(categories, expandedCategories)
    /\ UNCHANGED <<categories, prompts, grouped, walkVars, storeVars, promptStoreVars,
                   modalVars, serverVars, cacheVars, pageFormVars, apiVars, renders,
                   filteredView, authVars>>

NextItems == RenderCategoryItems

SpecItems == InitItems /\ [][NextItems]_vars

\* the parent chain of the category ends at a root category
ChainEndsAtRoot(cats, category) ==
    \/ IsRoot(category)
    \/ \E i \in DOMAIN cats :
          /\ IsRoot(cats[i])
          /\ cats[i].id \in Ancestors(cats, category.id)

\* C29: in the all-categories view, for every category list with distinct
\* ids, cyclic or not, the rendering that starts at the root categories and
\* descends through childrenMap ends, makes at most one item for each
\* category, and makes items only for categories whose parent chain ends at
\* a root: none for a category on a cycle or below a dangling parent.
C29_ItemsOfRootedCategories ==
    (rendered # NoMemo /\ DistinctIds(categories)) =>
        /\ rendered.status # "RangeError"
        /\ \A i \in DOMAIN categories :
              Cardinality(PositionsOf(rendered.items, categories[i])) <= 1
        /\ \A k \in DOMAIN rendered.items :
              /\ Occurs(categories, rendered.items[k])
              /\ ChainEndsAtRoot(categories, rendered.items[k])

\* c1 is a root, c2 is its own parent and a third category is below c2:
\* with everything expanded the render has made the item of c1 only
C29_CycleWitness ==
    /\ rendered # NoMemo
    /\ rendered.status = "ok"
    /\ expandedCategories = [k \in TreeIds |-> TRUE]
    /\ categories = <<[id |-> "c1", parentId |-> Undefined],
                      [id |-> "c2", parentId |-> "c2"],
                      [id |-> "constructor", parentId |-> "c2"]>>
    /\ rendered.items = <<[id |-> "c1", parentId |-> Undefined]>>

----------------------------------------------------------------------------
(* The create-prompt form pressed again: the Create Prompt button of the   *)
(* modal is a plain button (type="button", no disabled attribute) whose     *)
(* onClick is handleManualSubmit, and formik.submitForm does not look at    *)
(* isSubmitting, so every press that passes the checks is an onSubmit call  *)
(* of its own.                                                               *)

MaxResubmits == 2

\* the requestIds of the thunks of MaxResubmits onSubmit calls
ResubmitRequestIds == 1..(3 * MaxResubmits)

NextResubmit ==
    \/ OpenModal
    \/ \E t \in Titles : ChangeTitle(t)
    \/ \E c \in Contents : ChangeContent(c)
    \/ HandleParentCategoryChange(NEW_CATEGORY_OPTION)
    \/ \E n \in Names : ChangeNewCategoryName(n)
    \/ HandleManualSubmitUpTo(MaxResubmits)
    \/ \E r \in ResubmitRequestIds : CreateCategoryFulfilled(r)
    \/ \E r \in ResubmitRequestIds, message \in CreateCategoryFailures :
           CreateCategoryRejected(r, message)
    \/ \E r \in ResubmitRequestIds : CreatePromptFulfilled(r)
    \/ \E r \in ResubmitRequestIds : CreatePromptRejected(r)
    \/ \E r \in ResubmitRequestIds : FetchPromptsFulfilled(r)
    \/ \E r \in ResubmitRequestIds : FetchPromptsRejected(r)

SpecResubmit == InitModal /\ [][NextResubmit]_vars

\* an onSubmit call of the form has not returned yet
SubmissionInFlight == \E n \in DOMAIN submissions : submissions[n] # Returned

\* C30: a form session in CREATING_NEW mode sends at most one
\* create-category and one create-prompt request: a press of Create Prompt
\* while a submission is in flight starts no request, no thunk and no
\* second onSubmit call.
C30_SecondPressStartsNothing ==
    [][(HandleManualSubmitUpTo(MaxResubmits) /\ isCreatingCategory /\ SubmissionInFlight) =>
          /\ requests' = requests
          /\ nextRequestId' = nextRequestId
          /\ submissions' = submissions]_vars

====
